---- MODULE Spec2Model ----
(***************************************************************************)
(* Model of the co-change extraction tool: the virtual-table layer         *)
(* (db.rs / persist.rs), entity insertion (persistence.rs), the file       *)
(* parser's entity linking (parsing.rs), the commit walker                 *)
(* (extraction.rs / walking.rs), the hunk collector, the blob cache, the   *)
(* change attribution and the presence sweep (extraction.rs, gtl.rs), and  *)
(* the final write of main (main.rs).                                      *)
(*                                                                         *)
(* Option<T> is modelled as a sequence of length at most one:              *)
(* None = <<>>, Some(x) = <<x>>.                                           *)
(***************************************************************************)
EXTENDS Integers, Sequences, FiniteSets, TLC

VARIABLES
    vt,         \* a VirtualTable<K, E>: [map, next_id]
    vt_out,     \* outcome of VirtualTable::write on vt
    vt_hist,    \* history: first insertion of every key, in call order
    vt_last,    \* history: the last call on vt and what it returned
    db,         \* the VirtualDb: six virtual tables
    db_out,     \* outcome of VirtualDb::write
    db_last,    \* history: the last insert_* call on db and what it returned
    db_dup,     \* history: some insert_change / insert_presence call met a stored key
    tag_slot,   \* history: one earlier insert_tag call, (path, returned id)
    panicked,   \* an unwrap() on None aborted the process
    parsed, \* the Vec<LocEntity> the last FileParser::parse returned
    walk,       \* CommitWalkIterator.walk: the CommitWalk (since, until, max_count)
    commits,    \* the items the underlying Revwalk yields, first to last
    revwalk,    \* CommitWalkIterator.revwalk: the items not yet yielded
    count,      \* CommitWalkIterator.count
    emitted,    \* history: commit times of the commits next() has returned
    ret,        \* history: what the last next() returned
    since_stop, \* history: some next() ended on a commit older than since
    pair,       \* the last pair of intervals intersected, with the result either way
    linked,     \* the last FileParser::parse call: its tree, its matches and what it returned
    runs,       \* two extraction runs over the same input: the tables of each
    dres,       \* the last diff.foreach over given deltas: the deltas and the outcome
    conv,       \* the last conversion of a DiffHunk by main.rs: the hunk and the outcome
    isect,      \* the last hunk conversion and intersection: its inputs and results
    ctx,        \* the ExtractionCtx: its cache, and the history of parser runs
    attr,       \* the last get_changes call: its DiffedFile and the changes returned
    calls,      \* history: every get_entities call, its key and the list it returned
    diffed,     \* the last diff_all_files call: its commits and the DiffedFiles returned
    ir_ref,     \* the last gtl::to_ref call: the reference and the ir::Ref returned
    pres,       \* the last get_presences call: its commit and the presences returned
    flush       \* the final write of main: the store file, the transaction, the step

vt_vars == <<vt, vt_out, vt_hist, vt_last>>

db_vars == <<db, db_out, db_last, db_dup, tag_slot, panicked, parsed>>

walk_vars == <<walk, commits, revwalk, count, emitted, ret, since_stop>>

repo_vars == <<calls, diffed, ir_ref, pres>>

conv_vars == <<dres, conv>>

ext_vars == <<dres, conv, isect, runs, linked, pair, ctx, attr, calls, diffed, ir_ref, pres, flush>>

vars ==
    <<vt, vt_out, vt_hist, vt_last, db, db_out, db_last, db_dup, tag_slot, panicked,
      parsed,
      walk, commits, revwalk, count, emitted, ret, since_stop,
      dres, conv, isect, pair, linked, runs, ctx, attr, calls, diffed, ir_ref, pres, flush>>

(***************************************************************************)
(* Bounds                                                                  *)
(***************************************************************************)
MaxRows == 3

MaxDepth == 2

MaxEntityRows == 3

MaxNodes == 3

MaxTags == 2

MaxDbRows == 2

MaxCommits == 3

MaxTime == 3

MaxCount == 2

MaxLine == 3

MaxHunks == 2

MaxCalls == 3

None == <<>>

Some(x) == <<x>>

(***************************************************************************)
(* VirtualTable<K, E> (db.rs)                                              *)
(***************************************************************************)

\* HashMap<K, (E, Id)> as the set of its entries
EmptyTable == [map |-> {}, next_id |-> 0]

len(t) == Cardinality(t.map)

Entries(t, key) == {r \in t.map : r.key = key}

get_id(t, key) ==
    IF Entries(t, key) = {} THEN None
    ELSE Some((CHOOSE r \in Entries(t, key) : TRUE).id)

\* mutant: a hit replaces the stored extra, as HashMap::insert would
insert_overwrite(t, key, extra) ==
    IF Entries(t, key) # {}
    THEN LET old == CHOOSE r \in Entries(t, key) : TRUE IN
         [vt |-> [map |-> (t.map \ {old}) \cup {[key |-> key, extra |-> extra, id |-> old.id]},
                  next_id |-> t.next_id],
          id |-> old.id]
    ELSE [vt |-> [map |-> t.map \cup {[key |-> key, extra |-> extra, id |-> t.next_id]},
                  next_id |-> t.next_id + 1],
          id |-> t.next_id]

\* mutant: next_id is advanced on every call, hit or miss
insert_always_advance(t, key, extra) ==
    IF Entries(t, key) # {}
    THEN [vt |-> [map |-> t.map, next_id |-> t.next_id + 1],
          id |-> (CHOOSE r \in Entries(t, key) : TRUE).id]
    ELSE [vt |-> [map |-> t.map \cup {[key |-> key, extra |-> extra, id |-> t.next_id]},
                  next_id |-> t.next_id + 1],
          id |-> t.next_id]

\* mutant: a row is reused only when key and extra both match
insert_by_key_and_extra(t, key, extra) ==
    LET same == {r \in Entries(t, key) : r.extra = extra} IN
    IF same # {}
    THEN [vt |-> t, id |-> (CHOOSE r \in same : TRUE).id]
    ELSE [vt |-> [map |-> t.map \cup {[key |-> key, extra |-> extra, id |-> t.next_id]},
                  next_id |-> t.next_id + 1],
          id |-> t.next_id]

\* entry(key).or_insert_with(|| { id = next_id; next_id += 1; (extra, id) })
insert(t, key, extra) ==
    IF Entries(t, key) # {}
    THEN [vt |-> t, id |-> (CHOOSE r \in Entries(t, key) : TRUE).id]
    ELSE [vt |-> [map |-> t.map \cup {[key |-> key, extra |-> extra, id |-> t.next_id]},
                  next_id |-> t.next_id + 1],
          id |-> t.next_id]

\* the orders in which HashMap::into_iter may yield the entries
IterOrders(S) ==
    {f \in [1..Cardinality(S) -> S] : \A i, j \in 1..Cardinality(S) : i # j => f[i] # f[j]}

\* mutant: the rows are executed in the HashMap's iteration order
sort_none(rows) == rows

RECURSIVE sort_by_key(_)
\* Vec::sort_by_key(|(_, (_, id))| *id): stable, ascending
sort_by_key(rows) ==
    IF rows = <<>> THEN <<>>
    ELSE LET x == Head(rows)
             rest == sort_by_key(Tail(rows))
         IN SelectSeq(rest, LAMBDA r : r.id < x.id) \o <<x>>
            \o SelectSeq(rest, LAMBDA r : r.id >= x.id)

\* VirtualTable::write: collect, sort, execute row by row; the first failing
\* execute (fail = Some(n): it fails after n rows were executed; n = 0 also
\* stands for a failing CREATE TABLE or prepare) returns Err
write(t, order, fail) ==
    LET rows == sort_by_key(order) IN
    IF fail = None
    THEN [status |-> "ok", rows |-> rows]
    ELSE [status |-> "err", rows |-> SubSeq(rows, 1, fail[1])]

\* the failures VirtualTable::write can meet on a table of n rows
Failures(n) == {None} \cup {Some(i) : i \in 0..(IF n = 0 THEN 0 ELSE n - 1)}

NotWritten == [status |-> "none", rows |-> <<>>]

(***************************************************************************)
(* Entity (ir.rs) and entity insertion (persistence.rs)                    *)
(***************************************************************************)
\* the (name, kind) pairs entities are built from
NameKinds == {<<"a", "file">>, <<"a", "class">>, <<"b", "class">>}

Discs == {"", "1"}

\* Entity::new_root
new_root(name, kind, disc) == [name |-> name, kind |-> kind, disc |-> disc, parent |-> None]

\* Entity::new
new(parent, name, kind, disc) ==
    [name |-> name, kind |-> kind, disc |-> disc, parent |-> Some(parent)]

RECURSIVE EntitiesOfDepth(_)
\* the entities whose root-to-leaf path has exactly d elements; the leaf alone
\* carries a discriminator other than the empty one
EntitiesOfDepth(d) ==
    IF d = 1 THEN {new_root(nk[1], nk[2], x) : nk \in NameKinds, x \in Discs}
    ELSE UNION {{new(p, nk[1], nk[2], x) : nk \in NameKinds, x \in Discs} :
                    p \in {q \in EntitiesOfDepth(d - 1) : q.disc = ""}}

AnyEntities == UNION {EntitiesOfDepth(d) : d \in 1..MaxDepth}

Reverse(q) == [i \in 1..Len(q) |-> q[Len(q) + 1 - i]]

RECURSIVE ancestors(_)
\* the vector Entity::to_vec builds before reversing it: leaf first
ancestors(e) ==
    <<<<e.name, e.kind, e.disc>>>>
        \o (IF e.parent = None THEN <<>> ELSE ancestors(e.parent[1]))

\* Entity::to_vec
to_vec(e) == Reverse(ancestors(e))

NullExtra == "NullExtra"

\* mutant: the key drops the parent id, so equal (name, kind) leaves collide
EntityKey_no_parent(parent_id, name, kind) == [parent_id |-> None, name |-> name, kind |-> kind]

EntityKey(parent_id, name, kind) == [parent_id |-> parent_id, name |-> name, kind |-> kind]

\* VirtualDb::new
NewDb ==
    [entity_vt |-> EmptyTable, commit_vt |-> EmptyTable, ref_vt |-> EmptyTable,
     change_vt |-> EmptyTable, presence_vt |-> EmptyTable, reachability_vt |-> EmptyTable]

RECURSIVE insert_tag_loop_counter(_, _, _)
\* mutant: the parent id is read from the table's counter instead of from the
\* id that insert returned
insert_tag_loop_counter(t, path, prev_id) ==
    IF path = <<>> THEN [vt |-> t, prev_id |-> prev_id]
    ELSE LET key == [parent_id |-> prev_id, name |-> Head(path)[1], kind |-> Head(path)[2]]
             r == insert(t, key, "NullExtra")
         IN insert_tag_loop_counter(r.vt, Tail(path), Some(t.next_id))

RECURSIVE insert_tag_loop(_, _, _)
\* the loop of insert_tag over the (name, kind) tuples of the path
insert_tag_loop(t, path, prev_id) ==
    IF path = <<>> THEN [vt |-> t, prev_id |-> prev_id]
    ELSE LET key == EntityKey(prev_id, Head(path)[1], Head(path)[2])
             r == insert(t, key, NullExtra)
         IN insert_tag_loop(r.vt, Tail(path), Some(r.id))

\* insert_tag: returns the db and prev_id.unwrap()
insert_tag(d, tag) ==
    LET r == insert_tag_loop(d.entity_vt, to_vec(tag), None)
    IN [db |-> [d EXCEPT !.entity_vt = r.vt], id |-> r.prev_id[1]]

NoFail == [table |-> 0, fail |-> None]

\* VirtualDb::write: the six tables in order, stopping at the first Err
\* (f.table = its position, 0 = none fails)
db_write(d, o, f) ==
    LET w(i, t, order) ==
            IF f.table = 0 \/ i < f.table THEN write(t, order, None).rows
            ELSE IF i = f.table THEN write(t, order, f.fail).rows
            ELSE <<>>
    IN [status |-> IF f.table = 0 THEN "ok" ELSE "err",
        entities |-> w(1, d.entity_vt, o.entity_vt),
        commits |-> w(2, d.commit_vt, o.commit_vt),
        refs |-> w(3, d.ref_vt, o.ref_vt),
        changes |-> w(4, d.change_vt, o.change_vt),
        presence |-> w(5, d.presence_vt, o.presence_vt),
        reachability |-> w(6, d.reachability_vt, o.reachability_vt)]

DbNotWritten ==
    [status |-> "none", entities |-> <<>>, commits |-> <<>>, refs |-> <<>>,
     changes |-> <<>>, presence |-> <<>>, reachability |-> <<>>]

\* the iteration orders of the six HashMaps
DbIterOrders(d) ==
    [entity_vt : IterOrders(d.entity_vt.map), commit_vt : IterOrders(d.commit_vt.map),
     ref_vt : IterOrders(d.ref_vt.map), change_vt : IterOrders(d.change_vt.map),
     presence_vt : IterOrders(d.presence_vt.map),
     reachability_vt : IterOrders(d.reachability_vt.map)]

TableAt(d, i) ==
    CASE i = 1 -> d.entity_vt [] i = 2 -> d.commit_vt [] i = 3 -> d.ref_vt
      [] i = 4 -> d.change_vt [] i = 5 -> d.presence_vt [] i = 6 -> d.reachability_vt

\* the failures VirtualDb::write can meet
DbFailures(d) ==
    {NoFail} \cup
    UNION {{[table |-> i, fail |-> x] : x \in Failures(len(TableAt(d, i))) \ {None}} : i \in 1..6}

(***************************************************************************)
(* Commit, change and presence insertion (persistence.rs)                  *)
(***************************************************************************)
\* the commits of the repository: git2::Commit, as far as insertion reads it
RepoCommits ==
    {[id |-> "c1", parent_count |-> 0, author_time |-> 1, commit_time |-> 1],
     [id |-> "c2", parent_count |-> 2, author_time |-> 1, commit_time |-> 2]}

Oids == {c.id : c \in RepoCommits}

CommitKey(sha1) == [sha1 |-> sha1]

CommitExtra(is_merge, author_time, commit_time, commit_info) ==
    [is_merge |-> is_merge, author_time |-> author_time, commit_time |-> commit_time,
     commit_info |-> commit_info]

\* CommitInfo::empty()
CommitInfoEmpty == 0

ChangeKey(commit_id, entity_id) == [commit_id |-> commit_id, entity_id |-> entity_id]

ChangeExtra(kind, adds, dels) == [kind |-> kind, adds |-> adds, dels |-> dels]

PresenceKey(commit_id, entity_id) == [commit_id |-> commit_id, entity_id |-> entity_id]

PresenceExtra(start_row, end_row) == [start_row |-> start_row, end_row |-> end_row]

insert_commit(d, commit) ==
    LET r == insert(d.commit_vt, CommitKey(commit.id),
                    CommitExtra(commit.parent_count > 1, commit.author_time,
                                commit.commit_time, CommitInfoEmpty))
    IN [db |-> [d EXCEPT !.commit_vt = r.vt], id |-> r.id]

\* insert_change; panic: get_id(..).unwrap() met None
insert_change(d, change) ==
    LET commit_id == get_id(d.commit_vt, CommitKey(change.commit)) IN
    IF commit_id = None THEN [db |-> d, id |-> 0, panic |-> TRUE]
    ELSE LET e == insert_tag(d, change.entity)
             r == insert(e.db.change_vt, ChangeKey(commit_id[1], e.id),
                         ChangeExtra(change.kind, change.adds, change.dels))
         IN [db |-> [e.db EXCEPT !.change_vt = r.vt], id |-> r.id, panic |-> FALSE]

\* insert_presence; panic: get_id(..).unwrap() met None
insert_presence(d, presence) ==
    LET commit_id == get_id(d.commit_vt, CommitKey(presence.commit)) IN
    IF commit_id = None THEN [db |-> d, id |-> 0, panic |-> TRUE]
    ELSE LET e == insert_tag(d, presence.loc_entity.entity)
             interval == presence.loc_entity.loc
             r == insert(e.db.presence_vt, PresenceKey(commit_id[1], e.id),
                         PresenceExtra(interval[1], interval[2]))
         IN [db |-> [e.db EXCEPT !.presence_vt = r.vt], id |-> r.id, panic |-> FALSE]

(***************************************************************************)
(* File parser: linking of the query matches into entities (parsing.rs)    *)
(***************************************************************************)
FileNames == {"A.java", "B.java"}

\* identifier texts the name capture can yield
Idents == {"a"}

\* kinds the query declares as tag.<kind> captures
TagKinds == {"class", "method"}

Interval(a, b) == <<a, b>>

LocEntity(entity, loc) == [entity |-> entity, loc |-> loc]

\* a tree-sitter Range, rows only
Ranges == {[start_row |-> 1, end_row |-> 1]}

to_interval(range) == Interval(range.start_row + 1, range.end_row + 1)

\* syntax trees over nodes 1..MaxNodes: node 1 is the root (parent 0), every
\* other node hangs under an earlier one
SyntaxTrees ==
    {p \in [1..MaxNodes -> 0..MaxNodes] : p[1] = 0 /\ \A n \in 2..MaxNodes : p[n] \in 1..(n - 1)}

RECURSIVE get_ancestor_ids(_, _)
\* get_ancestor_ids of the node whose parent is `curr`: parent first, root last
get_ancestor_ids(tree, curr) ==
    IF curr = 0 THEN <<>> ELSE <<curr>> \o get_ancestor_ids(tree, tree[curr])

\* the Tag that FileParser::parse builds for one complete match
PreTag(tree, node, name, kind, range) ==
    [id |-> node, ancestor_ids |-> get_ancestor_ids(tree, tree[node]),
     name |-> name, kind |-> kind, range |-> range]

\* mutant: the tags are linked in the order the matches arrived
sort_by_ancestors_as_matched(tags) == tags

RECURSIVE sort_by_ancestors(_)
\* tags.sort_by_key(|t| t.ancestor_ids.len()): stable, ascending
sort_by_ancestors(tags) ==
    IF tags = <<>> THEN <<>>
    ELSE LET x == Head(tags)
             rest == sort_by_ancestors(Tail(tags))
         IN SelectSeq(rest, LAMBDA t : Len(t.ancestor_ids) < Len(x.ancestor_ids)) \o <<x>>
            \o SelectSeq(rest, LAMBDA t : Len(t.ancestor_ids) >= Len(x.ancestor_ids))

\* pre_tag.ancestor_ids.iter().find(|id| entities.contains_key(id))
find_parent(ancestor_ids, entities) ==
    LET hits == {i \in 1..Len(ancestor_ids) : ancestor_ids[i] \in DOMAIN entities}
    IN IF hits = {} THEN None
       ELSE Some(ancestor_ids[CHOOSE i \in hits : \A j \in hits : i <= j])

RECURSIVE link_loop_orphan(_, _, _, _)
\* mutant: a tag without a tagged ancestor becomes a root of its own
link_loop_orphan(file_tag, tags, entities, loc_entities) ==
    IF tags = <<>> THEN loc_entities
    ELSE LET pre_tag == Head(tags)
             parent_id == find_parent(pre_tag.ancestor_ids, entities)
             tag == IF parent_id # None
                    THEN new(entities[parent_id[1]], pre_tag.name, pre_tag.kind, "")
                    ELSE new_root(pre_tag.name, pre_tag.kind, "")
         IN link_loop_orphan(file_tag, Tail(tags),
                      [n \in DOMAIN entities \cup {pre_tag.id} |->
                          IF n = pre_tag.id THEN tag ELSE entities[n]],
                      Append(loc_entities, LocEntity(tag, to_interval(pre_tag.range))))

RECURSIVE link_loop(_, _, _, _)
\* the for loop of to_loc_entities; entities is the node-id -> Entity map
link_loop(file_tag, tags, entities, loc_entities) ==
    IF tags = <<>> THEN loc_entities
    ELSE LET pre_tag == Head(tags)
             parent_id == find_parent(pre_tag.ancestor_ids, entities)
             tag == IF parent_id # None
                    THEN new(entities[parent_id[1]], pre_tag.name, pre_tag.kind, "")
                    ELSE new(file_tag.entity, pre_tag.name, pre_tag.kind, "")
         IN link_loop(file_tag, Tail(tags),
                      [n \in DOMAIN entities \cup {pre_tag.id} |->
                          IF n = pre_tag.id THEN tag ELSE entities[n]],
                      Append(loc_entities, LocEntity(tag, to_interval(pre_tag.range))))

to_loc_entities(file_tag, tags) ==
    Append(link_loop(file_tag, sort_by_ancestors(tags), <<>>, <<>>), file_tag)

\* FileParser::parse: the matches arrive in the order the query cursor yields
\* them; root_range is tree.root_node().range()
parse(filename, root_range, pre_tags) ==
    to_loc_entities(LocEntity(new_root(filename, "file", ""), to_interval(root_range)), pre_tags)

\* the lists of matches a blob can produce: up to MaxTags tagged nodes of one
\* syntax tree, in any order
MatchLists ==
    UNION {UNION {
        {m \in [1..k -> {PreTag(tree, n, nm, kd, rg) :
                            n \in 1..MaxNodes, nm \in Idents, kd \in TagKinds, rg \in Ranges}] :
            \A i, j \in 1..k : i # j => m[i].id # m[j].id}
        : k \in 0..MaxTags} : tree \in SyntaxTrees}

WholeFile == [start_row |-> 0, end_row |-> 1]

\* every list of located entities the parser can return
ParsedFiles == {parse(f, WholeFile, m) : f \in FileNames, m \in MatchLists}

(***************************************************************************)
(* Intervals and hunks (ir.rs, extraction.rs)                              *)
(***************************************************************************)
Max(a, b) == IF a >= b THEN a ELSE b

Min(a, b) == IF a <= b THEN a ELSE b

\* mutant: the ends are subtracted without the check
intersect_unchecked(self, other) ==
    Min(self[2], other[2]) - Max(self[1], other[1])

\* Interval::intersect: p1.checked_sub(p0).unwrap_or_default()
intersect(self, other) ==
    LET p0 == Max(self[1], other[1])
        p1 == Min(self[2], other[2])
    IN IF p1 >= p0 THEN p1 - p0 ELSE 0

Hunk(old_interval, new_interval) == [old_interval |-> old_interval, new_interval |-> new_interval]

\* a git2::DiffHunk, as far as the conversion reads it
DiffHunks ==
    [old_start : 0..MaxLine, old_lines : 0..MaxLine,
     new_start : 0..MaxLine, new_lines : 0..MaxLine]

\* TryFrom<git2::DiffHunk> for ir::Hunk
hunk_try_from(diff_hunk) ==
    Hunk(Interval(diff_hunk.old_start, diff_hunk.old_start + diff_hunk.old_lines),
         Interval(diff_hunk.new_start, diff_hunk.new_start + diff_hunk.new_lines))

\* the spans to_interval yields: one-based rows, both ends inclusive
Spans == UNION {{Interval(a, b) : b \in a..MaxLine} : a \in 1..MaxLine}

(***************************************************************************)
(* The blob cache and change attribution (extraction.rs)                   *)
(***************************************************************************)
ZeroOid == "0"

\* the entities FileParser::parse finds in a file of the given path
FileOf(filename) == new_root(filename, "file", "")

ClassA(filename) == new(FileOf(filename), "a", "class", "")

ClassB(filename) == new(FileOf(filename), "b", "class", "")

\* the repository's blobs, each with what FileParser::parse returns for its
\* content under the given path; "b3" holds two classes of the same identity
RepoBlobs(filename) ==
    [b1 |-> <<LocEntity(ClassA(filename), Interval(1, 2)),
              LocEntity(FileOf(filename), Interval(1, 3))>>,
     b2 |-> <<LocEntity(ClassA(filename), Interval(2, 3)),
              LocEntity(ClassB(filename), Interval(1, 2)),
              LocEntity(FileOf(filename), Interval(1, 3))>>,
     b3 |-> <<LocEntity(ClassA(filename), Interval(1, 2)),
              LocEntity(ClassA(filename), Interval(2, 3)),
              LocEntity(FileOf(filename), Interval(1, 3))>>]

BlobOids == {"b1", "b2", "b3"} \cup {ZeroOid}

\* main before the final write: no store file, no transaction; n counts the
\* statements done at the current step, vdb is the data main has built
NewFlush == [pc |-> "start", n |-> 0, store |-> None, tx |-> None, vdb |-> NewDb]

\* ExtractionCtx::new; parses is the history of the keys the parser ran on
NewCtx == [cache |-> {}, parses |-> <<>>]

\* mutant: the parser runs on every call and the entry is replaced
get_entities_uncached(c, filename, blob) ==
    IF blob = ZeroOid
    THEN [ctx |-> [c EXCEPT !.cache = {x \in @ : x.key # <<filename, blob>>}
                                        \cup {[key |-> <<filename, blob>>, val |-> <<>>]}],
          val |-> <<>>]
    ELSE [ctx |-> [cache |-> {x \in c.cache : x.key # <<filename, blob>>}
                                \cup {[key |-> <<filename, blob>>,
                                       val |-> RepoBlobs(filename)[blob]]},
                   parses |-> Append(c.parses, <<filename, blob>>)],
          val |-> RepoBlobs(filename)[blob]]

\* ExtractionCtx::get_entities: cache.entry((filename, blob)).or_insert_with(..)
get_entities(c, filename, blob) ==
    LET hit == {x \in c.cache : x.key = <<filename, blob>>} IN
    IF hit # {} THEN [ctx |-> c, val |-> (CHOOSE x \in hit : TRUE).val]
    ELSE IF blob = ZeroOid
    THEN [ctx |-> [c EXCEPT !.cache = @ \cup {[key |-> <<filename, blob>>, val |-> <<>>]}],
          val |-> <<>>]
    ELSE [ctx |-> [cache |-> c.cache \cup {[key |-> <<filename, blob>>,
                                           val |-> RepoBlobs(filename)[blob]]},
                   parses |-> Append(c.parses, <<filename, blob>>)],
          val |-> RepoBlobs(filename)[blob]]

DiffedFile(filename, commit, old_file, new_file, hunks) ==
    [filename |-> filename, commit |-> commit, old_file |-> old_file, new_file |-> new_file,
     hunks |-> hunks]

\* mutant: only the first hunk is counted
sum_old_first(hunks, loc) ==
    IF hunks = <<>> THEN 0 ELSE intersect(Head(hunks).old_interval, loc)

RECURSIVE sum_old(_, _)
\* df.hunks.iter().map(|h| h.old_interval.intersect(loc)).sum()
sum_old(hunks, loc) ==
    IF hunks = <<>> THEN 0
    ELSE intersect(Head(hunks).old_interval, loc) + sum_old(Tail(hunks), loc)

RECURSIVE sum_new(_, _)
\* df.hunks.iter().map(|h| h.new_interval.intersect(loc)).sum()
sum_new(hunks, loc) ==
    IF hunks = <<>> THEN 0
    ELSE intersect(Head(hunks).new_interval, loc) + sum_new(Tail(hunks), loc)

\* ChangeBuilder::default(): no field set
NewBuilder(e) == [entity |-> e, kind |-> None, adds |-> None, dels |-> None]

\* changes.entry(e).or_default(): the builder of e, made if missing
entry_or_default(builders, e) ==
    IF \E b \in builders : b.entity = e
    THEN CHOOSE b \in builders : b.entity = e
    ELSE NewBuilder(e)

\* mutant: the deletions are added to those the builder already holds
set_dels_accumulated(builders, e, n) ==
    LET b == entry_or_default(builders, e)
    IN {x \in builders : x.entity # e}
          \cup {[b EXCEPT !.dels = Some(n + (IF b.dels = None THEN 0 ELSE b.dels[1]))]}

set_dels(builders, e, n) ==
    LET b == entry_or_default(builders, e)
    IN {x \in builders : x.entity # e} \cup {[b EXCEPT !.dels = Some(n)]}

set_adds(builders, e, n) ==
    LET b == entry_or_default(builders, e)
    IN {x \in builders : x.entity # e} \cup {[b EXCEPT !.adds = Some(n)]}

set_kind(builders, e, k) ==
    LET b == entry_or_default(builders, e)
    IN {x \in builders : x.entity # e} \cup {[b EXCEPT !.kind = Some(k)]}

RECURSIVE dels_loop_unguarded(_, _, _)
\* mutant: the deletions are recorded even when the sum is zero
dels_loop_unguarded(builders, les, hunks) ==
    IF les = <<>> THEN builders
    ELSE dels_loop_unguarded(set_dels(builders, Head(les).entity, sum_old(hunks, Head(les).loc)),
                             Tail(les), hunks)

RECURSIVE dels_loop(_, _, _)
\* the first loop of get_changes, over the old blob's located entities
dels_loop(builders, les, hunks) ==
    IF les = <<>> THEN builders
    ELSE LET dels == sum_old(hunks, Head(les).loc)
         IN dels_loop(IF dels > 0 THEN set_dels(builders, Head(les).entity, dels) ELSE builders,
                      Tail(les), hunks)

RECURSIVE adds_loop(_, _, _)
\* the second loop of get_changes, over the new blob's located entities
adds_loop(builders, les, hunks) ==
    IF les = <<>> THEN builders
    ELSE LET adds == sum_new(hunks, Head(les).loc)
         IN adds_loop(IF adds > 0 THEN set_adds(builders, Head(les).entity, adds) ELSE builders,
                      Tail(les), hunks)

RECURSIVE kind_loop_touched(_, _, _)
\* mutant: the kind is set only on entities that already have a builder
kind_loop_touched(builders, es, k) ==
    IF es = {} THEN builders
    ELSE LET e == CHOOSE x \in es : TRUE
         IN kind_loop_touched(IF \E b \in builders : b.entity = e
                              THEN set_kind(builders, e, k) ELSE builders,
                              es \ {e}, k)

RECURSIVE kind_loop(_, _, _)
\* for e in a.difference(b) { changes.entry(e).or_default().kind(k) }
kind_loop(builders, es, k) ==
    IF es = {} THEN builders
    ELSE LET e == CHOOSE x \in es : TRUE
         IN kind_loop(set_kind(builders, e, k), es \ {e}, k)

EntitySet(les) == {les[i].entity : i \in 1..Len(les)}

\* ChangeBuilder::build with the #[builder(default)] fields
build(b, commit) ==
    [entity |-> b.entity, commit |-> commit,
     kind |-> IF b.kind = None THEN "Modified" ELSE b.kind[1],
     adds |-> IF b.adds = None THEN 0 ELSE b.adds[1],
     dels |-> IF b.dels = None THEN 0 ELSE b.dels[1]]

\* mutant: the kind is taken from the side the lines were counted on
get_changes_kind_by_lines(c, df) ==
    LET r1 == get_entities(c, df.filename, df.old_file)
        r2 == get_entities(r1.ctx, df.filename, df.new_file)
        b1 == dels_loop({}, r1.val, df.hunks)
        b2 == adds_loop(b1, r2.val, df.hunks)
    IN [ctx |-> r2.ctx,
        changes |-> {[entity |-> b.entity, commit |-> df.commit,
                      kind |-> IF b.adds = None THEN "Deleted"
                               ELSE IF b.dels = None THEN "Added" ELSE "Modified",
                      adds |-> IF b.adds = None THEN 0 ELSE b.adds[1],
                      dels |-> IF b.dels = None THEN 0 ELSE b.dels[1]] : b \in b2}]

\* get_changes; the Vec returned is taken as the set of its elements
get_changes(c, df) ==
    LET r1 == get_entities(c, df.filename, df.old_file)
        b1 == dels_loop({}, r1.val, df.hunks)
        r2 == get_entities(r1.ctx, df.filename, df.new_file)
        b2 == adds_loop(b1, r2.val, df.hunks)
        r3 == get_entities(r2.ctx, df.filename, df.old_file)
        old_entities == EntitySet(r3.val)
        r4 == get_entities(r3.ctx, df.filename, df.new_file)
        new_entities == EntitySet(r4.val)
        b3 == kind_loop(b2, old_entities \ new_entities, "Deleted")
        b4 == kind_loop(b3, new_entities \ old_entities, "Added")
    IN [ctx |-> r4.ctx, changes |-> {build(b, df.commit) : b \in b4}]

(***************************************************************************)
(* Commit walker (extraction.rs, walking.rs)                               *)
(***************************************************************************)
Times == 1..MaxTime

\* what revwalk.next(), find_commit and the time conversion yield for one
\* commit: its commit time, or an error
WalkItems == {[ok |-> TRUE, time |-> t] : t \in Times} \cup {[ok |-> FALSE, time |-> 0]}

\* CommitWalk::new followed by set_since / set_until / set_max_count
CommitWalks ==
    [since : {None} \cup {Some(t) : t \in Times},
     until : {None} \cup {Some(t) : t \in Times},
     max_count : {None} \cup {Some(n) : n \in 0..MaxCount}]

RetNone == [kind |-> "None", time |-> 0]

RetErr == [kind |-> "Err", time |-> 0]

RetOk(t) == [kind |-> "Ok", time |-> t]

\* mutant: the until test is left out, a commit newer than until is returned
next_no_until(w, rw, n) ==
    IF rw = <<>> THEN [revwalk |-> rw, count |-> n, ret |-> RetNone, since |-> FALSE]
    ELSE LET item == Head(rw)
             commit_time == item.time
             is_valid_by_since == IF w.since = None THEN TRUE ELSE commit_time >= w.since[1]
             is_valid_by_n == IF w.max_count = None THEN TRUE ELSE n < w.max_count[1]
         IN IF ~item.ok
            THEN [revwalk |-> Tail(rw), count |-> n, ret |-> RetErr, since |-> FALSE]
            ELSE IF ~is_valid_by_since \/ ~is_valid_by_n
            THEN [revwalk |-> Tail(rw), count |-> n, ret |-> RetNone,
                  since |-> ~is_valid_by_since]
            ELSE [revwalk |-> Tail(rw), count |-> n + 1, ret |-> RetOk(commit_time),
                  since |-> FALSE]

RECURSIVE next(_, _, _)
\* CommitWalkIterator::next of extraction.rs; yields the iterator's new
\* revwalk and count, the value returned, and whether the loop was left on
\* the since test
next(w, rw, n) ==
    IF rw = <<>> THEN [revwalk |-> rw, count |-> n, ret |-> RetNone, since |-> FALSE]
    ELSE LET item == Head(rw)
             commit_time == item.time
             is_valid_by_since == IF w.since = None THEN TRUE ELSE commit_time >= w.since[1]
             is_valid_by_until == IF w.until = None THEN TRUE ELSE commit_time <= w.until[1]
             is_valid_by_n == IF w.max_count = None THEN TRUE ELSE n < w.max_count[1]
         IN IF ~item.ok
            THEN [revwalk |-> Tail(rw), count |-> n, ret |-> RetErr, since |-> FALSE]
            ELSE IF ~is_valid_by_since \/ ~is_valid_by_n
            THEN [revwalk |-> Tail(rw), count |-> n, ret |-> RetNone,
                  since |-> ~is_valid_by_since]
            ELSE IF ~is_valid_by_until
            THEN next(w, Tail(rw), n)
            ELSE [revwalk |-> Tail(rw), count |-> n + 1, ret |-> RetOk(commit_time),
                  since |-> FALSE]

RECURSIVE walking_next(_, _, _)
\* CommitWalkIterator::next of walking.rs: count is never advanced
walking_next(w, rw, n) ==
    IF rw = <<>> THEN [revwalk |-> rw, count |-> n, ret |-> RetNone, since |-> FALSE]
    ELSE LET item == Head(rw)
             commit_time == item.time
             is_valid_by_since == IF w.since = None THEN TRUE ELSE commit_time >= w.since[1]
             is_valid_by_until == IF w.until = None THEN TRUE ELSE commit_time <= w.until[1]
             is_valid_by_n == IF w.max_count = None THEN TRUE ELSE n < w.max_count[1]
         IN IF ~item.ok
            THEN [revwalk |-> Tail(rw), count |-> n, ret |-> RetErr, since |-> FALSE]
            ELSE IF ~is_valid_by_since \/ ~is_valid_by_n
            THEN [revwalk |-> Tail(rw), count |-> n, ret |-> RetNone,
                  since |-> ~is_valid_by_since]
            ELSE IF ~is_valid_by_until
            THEN walking_next(w, Tail(rw), n)
            ELSE [revwalk |-> Tail(rw), count |-> n, ret |-> RetOk(commit_time),
                  since |-> FALSE]

(***************************************************************************)
(* A single VirtualTable over abstract keys and extras                     *)
(***************************************************************************)
Keys == {"k1", "k2", "k3", "k4"}

Extras == {"e1", "e2"}

VtStart ==
    /\ vt = EmptyTable
    /\ vt_out = NotWritten
    /\ vt_hist = <<>>
    /\ vt_last = [op |-> "new", key |-> "", extra |-> "", ret |-> None]

\* nothing extracted yet
ExtStart ==
    /\ dres = None
    /\ conv = None
    /\ isect = None
    /\ pair = None
    /\ linked = None
    /\ runs = None
    /\ ctx = NewCtx
    /\ attr = None
    /\ calls = <<>>
    /\ diffed = None
    /\ ir_ref = None
    /\ pres = None
    /\ flush = NewFlush

DbStart ==
    /\ db = NewDb
    /\ db_out = DbNotWritten
    /\ db_last = [op |-> "new", path |-> <<>>, ret |-> 0]
    /\ db_dup = FALSE
    /\ tag_slot = None
    /\ panicked = FALSE
    /\ parsed = <<>>
    /\ ExtStart

\* no walk configured, nothing to walk
WalkStart ==
    /\ walk = [since |-> None, until |-> None, max_count |-> None]
    /\ commits = <<>>
    /\ revwalk = <<>>
    /\ count = 0
    /\ emitted = <<>>
    /\ ret = RetNone
    /\ since_stop = FALSE

VtInit == VtStart /\ DbStart /\ WalkStart

HistKeys(h) == {h[i].key : i \in 1..Len(h)}

VtInsert(k, e) ==
    /\ vt_out.status = "none"
    /\ LET r == insert(vt, k, e) IN
       /\ r.vt.next_id <= MaxRows
       /\ vt' = r.vt
       /\ vt_last' = [op |-> "insert", key |-> k, extra |-> e, ret |-> Some(r.id)]
       /\ vt_hist' = IF k \in HistKeys(vt_hist) THEN vt_hist
                     ELSE Append(vt_hist, [key |-> k, extra |-> e, id |-> r.id])
    /\ UNCHANGED vt_out
    /\ UNCHANGED db_vars
    /\ UNCHANGED walk_vars
    /\ UNCHANGED ext_vars

VtGetId(k) ==
    /\ vt_out.status = "none"
    /\ vt_last' = [op |-> "get_id", key |-> k, extra |-> "", ret |-> get_id(vt, k)]
    /\ UNCHANGED <<vt, vt_out, vt_hist>>
    /\ UNCHANGED db_vars
    /\ UNCHANGED walk_vars
    /\ UNCHANGED ext_vars

VtWrite ==
    /\ vt_out.status = "none"
    /\ \E order \in IterOrders(vt.map) : \E fail \in Failures(len(vt)) :
          vt_out' = write(vt, order, fail)
    /\ vt_last' = [op |-> "write", key |-> "", extra |-> "", ret |-> None]
    /\ UNCHANGED <<vt, vt_hist>>
    /\ UNCHANGED db_vars
    /\ UNCHANGED walk_vars
    /\ UNCHANGED ext_vars

VtNext ==
    \/ \E k \in Keys, e \in Extras : VtInsert(k, e)
    \/ \E k \in Keys : VtGetId(k)
    \/ VtWrite

SpecVt == VtInit /\ [][VtNext]_vars

\* C1: inserting a key that is already present returns the id assigned at the
\* key's first insertion, keeps the extra stored then (even when the new extra
\* differs) and leaves next_id and every entry unchanged.
C1_ReinsertKeepsFirst ==
    [][(vt_last'.op = "insert" /\ Entries(vt, vt_last'.key) # {}) =>
          /\ \E i \in 1..Len(vt_hist) :
                /\ vt_hist[i].key = vt_last'.key
                /\ vt_last'.ret = Some(vt_hist[i].id)
                /\ Entries(vt', vt_last'.key) =
                      {[key |-> vt_hist[i].key, extra |-> vt_hist[i].extra, id |-> vt_hist[i].id]}
          /\ vt'.next_id = vt.next_id
          /\ vt'.map = vt.map]_vars

\* a key was re-inserted with an extra other than the stored one, next to other rows
C1_Witness ==
    /\ vt_last.op = "insert"
    /\ len(vt) >= 2
    /\ \E r \in vt.map : r.key = vt_last.key /\ r.extra # vt_last.extra

\* C6: the ids in use are exactly 0..len-1 without gap or duplicate, next_id
\* equals len, and a key first inserted earlier has a smaller id than a key
\* first inserted later.
C6_DenseOrderedIds ==
    /\ {r.id : r \in vt.map} = 0..(len(vt) - 1)
    /\ \A r, q \in vt.map : r.id = q.id => r = q
    /\ vt.next_id = len(vt)
    /\ {r.key : r \in vt.map} = HistKeys(vt_hist)
    /\ \A i, j \in 1..Len(vt_hist) : i < j =>
          \A r, q \in vt.map :
             (r.key = vt_hist[i].key /\ q.key = vt_hist[j].key) => r.id < q.id

\* three rows are stored and an older key has just been inserted again
C6_Witness ==
    /\ len(vt) >= 3
    /\ vt_last.op = "insert"
    /\ vt_last.ret # None
    /\ vt_last.ret[1] + 1 < vt.next_id

(***************************************************************************)
(* insert_tag on arbitrary entities                                        *)
(***************************************************************************)
RECURSIVE PathOf(_)
\* the root-to-leaf sequence of (name, kind) of an entity
PathOf(e) ==
    (IF e.parent = None THEN <<>> ELSE PathOf(e.parent[1])) \o <<<<e.name, e.kind>>>>

InsertTag(e) ==
    /\ ~panicked
    /\ db_out.status = "none"
    /\ LET r == insert_tag(db, e) IN
       /\ r.db.entity_vt.next_id <= MaxEntityRows
       /\ db' = r.db
       /\ db_last' = [op |-> "insert_tag", path |-> PathOf(e), ret |-> r.id]
       /\ \E keep \in BOOLEAN :
             tag_slot' = IF keep /\ tag_slot = None
                         THEN Some([path |-> PathOf(e), id |-> r.id])
                         ELSE tag_slot
    /\ UNCHANGED <<db_out, db_dup, panicked, parsed>>
    /\ UNCHANGED vt_vars
    /\ UNCHANGED walk_vars
    /\ UNCHANGED ext_vars

DbWrite ==
    /\ ~panicked
    /\ db_out.status = "none"
    /\ \E o \in DbIterOrders(db), f \in DbFailures(db) : db_out' = db_write(db, o, f)
    /\ UNCHANGED <<db, db_last, db_dup, tag_slot, panicked, parsed>>
    /\ UNCHANGED vt_vars
    /\ UNCHANGED walk_vars
    /\ UNCHANGED ext_vars

TagNext ==
    \/ \E e \in AnyEntities : InsertTag(e)
    \/ DbWrite

DbInit == VtStart /\ DbStart /\ WalkStart

SpecTag == DbInit /\ [][TagNext]_vars

\* C2: every entity row with a non-null parent_id has a parent row in the
\* table, and the parent's id is strictly less than its own.
C2_ParentBeforeChild ==
    \A r \in db.entity_vt.map :
        r.key.parent_id # None =>
            \E q \in db.entity_vt.map : q.id = r.key.parent_id[1] /\ q.id < r.id

\* a child row was stored after rows other than its parent's: insertions interleaved
C2_Witness ==
    \E r \in db.entity_vt.map :
        r.key.parent_id # None /\ r.key.parent_id[1] + 1 < r.id

RECURSIVE RowPath(_, _, _)
\* the (name, kind) path spelled by the row `id` and its chain of parent rows,
\* following at most n links
RowPath(t, id, n) ==
    LET rows == {r \in t.map : r.id = id} IN
    IF n = 0 \/ rows = {} THEN <<>>
    ELSE LET r == CHOOSE x \in rows : TRUE
         IN (IF r.key.parent_id = None THEN <<>> ELSE RowPath(t, r.key.parent_id[1], n - 1))
            \o <<<<r.key.name, r.key.kind>>>>

\* C3: two insert_tag calls return the same id if and only if the two entities
\* have the same root-to-leaf (name, kind) sequence, whatever was inserted
\* before or between them; the id returned is the one of the leaf's row.
C3_SameIdIffSamePath ==
    db_last.op = "insert_tag" =>
        /\ RowPath(db.entity_vt, db_last.ret, Len(db_last.path) + 1) = db_last.path
        /\ tag_slot # None =>
              (tag_slot[1].id = db_last.ret <=> tag_slot[1].path = db_last.path)

\* an entity of depth two or more was inserted again after other entities had
\* been given later ids, and got the id of the remembered call
C3_Witness ==
    /\ db_last.op = "insert_tag"
    /\ tag_slot # None
    /\ tag_slot[1].id = db_last.ret
    /\ Len(db_last.path) >= 2
    /\ db_last.ret + 1 < db.entity_vt.next_id

IsSeqOf(rows, t) == \A i \in 1..Len(rows) : rows[i] \in t.map

Ascending(rows) == \A i, j \in 1..Len(rows) : i < j => rows[i].id < rows[j].id

EmittedAll(rows, t) == {rows[i] : i \in 1..Len(rows)} = t.map

\* C7: write emits stored rows only, in strictly ascending id order, and when
\* it succeeds every stored row exactly once; every entity row is written
\* after the row of its parent.
C7_WriteAscending ==
    db_out.status # "none" =>
        /\ IsSeqOf(db_out.entities, db.entity_vt) /\ Ascending(db_out.entities)
        /\ IsSeqOf(db_out.commits, db.commit_vt) /\ Ascending(db_out.commits)
        /\ IsSeqOf(db_out.changes, db.change_vt) /\ Ascending(db_out.changes)
        /\ IsSeqOf(db_out.presence, db.presence_vt) /\ Ascending(db_out.presence)
        /\ db_out.status = "ok" =>
              /\ EmittedAll(db_out.entities, db.entity_vt)
              /\ EmittedAll(db_out.commits, db.commit_vt)
              /\ EmittedAll(db_out.changes, db.change_vt)
              /\ EmittedAll(db_out.presence, db.presence_vt)
        /\ \A i \in 1..Len(db_out.entities) :
              db_out.entities[i].key.parent_id # None =>
                 \E j \in 1..(i - 1) :
                    db_out.entities[j].id = db_out.entities[i].key.parent_id[1]

\* a full entity table was written, with a child whose parent is not the row
\* just before it
C7_Witness ==
    /\ db_out.status = "ok"
    /\ Len(db_out.entities) = MaxEntityRows
    /\ \E i \in 1..Len(db_out.entities) :
          /\ db_out.entities[i].key.parent_id # None
          /\ db_out.entities[i].key.parent_id[1] + 1 < db_out.entities[i].id

(***************************************************************************)
(* Insertion of the parser's entities                                      *)
(***************************************************************************)
\* FileParser::parse of one more blob
Parse(les) ==
    /\ parsed' = les
    /\ UNCHANGED <<db, db_out, db_last, db_dup, tag_slot, panicked>>
    /\ UNCHANGED vt_vars
    /\ UNCHANGED walk_vars
    /\ UNCHANGED ext_vars

\* insert_tag of the i-th entity of the parsed file
InsertParsedTag(i) ==
    /\ LET r == insert_tag(db, parsed[i].entity) IN
       /\ r.db.entity_vt.next_id <= MaxEntityRows
       /\ db' = r.db
    /\ UNCHANGED <<db_out, db_last, db_dup, tag_slot, panicked, parsed>>
    /\ UNCHANGED vt_vars
    /\ UNCHANGED walk_vars
    /\ UNCHANGED ext_vars

ParseNext ==
    \/ \E les \in ParsedFiles : Parse(les)
    \/ \E i \in 1..Len(parsed) : InsertParsedTag(i)

SpecParse == DbInit /\ [][ParseNext]_vars

\* C4: for every entity row produced from the parser's entities, kind = 'file'
\* holds if and only if parent_id is null, and the row's chain of parents ends
\* at a file root.
C4_FileIffRoot ==
    \A r \in db.entity_vt.map :
        /\ (r.key.kind = "file") <=> (r.key.parent_id = None)
        /\ LET path == RowPath(db.entity_vt, r.id, MaxEntityRows + 1)
           IN path # <<>> /\ Head(path)[2] = "file"

\* a tagged entity nested in another tagged entity is stored under the file root
C4_Witness ==
    \E r, q \in db.entity_vt.map :
        /\ r.key.parent_id = Some(q.id)
        /\ q.key.parent_id # None

(***************************************************************************)
(* Commits, changes and presence in the virtual database                   *)
(***************************************************************************)
Fits(d) == d.change_vt.next_id + d.presence_vt.next_id <= MaxDbRows

\* (kind, adds, dels) of the changes inserted
ChangeShapes ==
    {[kind |-> "Added", adds |-> 1, dels |-> 0],
     [kind |-> "Deleted", adds |-> 0, dels |-> 1]}

\* the entities of a file with one class, and a second file
DbEntities ==
    LET file == new_root("A.java", "file", "")
    IN {file, new(file, "a", "class", ""), new_root("B.java", "file", "")}

DbLocEntities == {LocEntity(e, to_interval(r)) : e \in DbEntities, r \in Ranges \cup {WholeFile}}

Changes ==
    {[entity |-> e, commit |-> c, kind |-> x.kind, adds |-> x.adds, dels |-> x.dels] :
        e \in DbEntities, c \in Oids, x \in ChangeShapes}

Presences == [loc_entity : DbLocEntities, commit : Oids]

InsertCommit(c) ==
    /\ ~panicked
    /\ db_out.status = "none"
    /\ LET r == insert_commit(db, c) IN
       /\ Fits(r.db)
       /\ db' = r.db
    /\ UNCHANGED <<db_out, db_last, db_dup, tag_slot, panicked, parsed>>
    /\ UNCHANGED vt_vars
    /\ UNCHANGED walk_vars
    /\ UNCHANGED ext_vars

InsertChange(ch) ==
    /\ ~panicked
    /\ db_out.status = "none"
    /\ LET r == insert_change(db, ch) IN
       /\ Fits(r.db)
       /\ db' = r.db
       /\ panicked' = r.panic
       /\ db_dup' = (db_dup \/ (~r.panic /\ r.db.change_vt.next_id = db.change_vt.next_id))
    /\ UNCHANGED <<db_out, db_last, tag_slot, parsed>>
    /\ UNCHANGED vt_vars
    /\ UNCHANGED walk_vars
    /\ UNCHANGED ext_vars

InsertPresence(pr) ==
    /\ ~panicked
    /\ db_out.status = "none"
    /\ LET r == insert_presence(db, pr) IN
       /\ Fits(r.db)
       /\ db' = r.db
       /\ panicked' = r.panic
       /\ db_dup' = (db_dup \/ (~r.panic /\ r.db.presence_vt.next_id = db.presence_vt.next_id))
    /\ UNCHANGED <<db_out, db_last, tag_slot, parsed>>
    /\ UNCHANGED vt_vars
    /\ UNCHANGED walk_vars
    /\ UNCHANGED ext_vars

DbNext ==
    \/ \E c \in RepoCommits : InsertCommit(c)
    \/ \E ch \in Changes : InsertChange(ch)
    \/ \E pr \in Presences : InsertPresence(pr)

SpecDb == DbInit /\ [][DbNext]_vars

\* C5: no two rows of the changes table share the same (commit_id, entity_id)
\* pair, and no two rows of the presence table do.
C5_UniquePairs ==
    /\ \A r, q \in db.change_vt.map :
          (r.key.commit_id = q.key.commit_id /\ r.key.entity_id = q.key.entity_id) => r = q
    /\ \A r, q \in db.presence_vt.map :
          (r.key.commit_id = q.key.commit_id /\ r.key.entity_id = q.key.entity_id) => r = q

\* a (commit, entity) pair was inserted again, in a table that holds two rows
C5_Witness ==
    /\ db_dup
    /\ len(db.change_vt) = 2 \/ len(db.presence_vt) = 2

(***************************************************************************)
(* The commit walker over an arbitrary underlying sequence                 *)
(***************************************************************************)
RECURSIVE SeqsUpTo(_, _)
SeqsUpTo(S, n) ==
    IF n = 0 THEN {<<>>}
    ELSE SeqsUpTo(S, n - 1) \cup {Append(q, x) : q \in SeqsUpTo(S, n - 1), x \in S}

\* CommitWalk::walk: CommitWalkIterator::new with count 0
WalkInit ==
    /\ VtStart /\ DbStart
    /\ walk \in CommitWalks
    /\ commits \in SeqsUpTo(WalkItems, MaxCommits)
    /\ revwalk = commits
    /\ count = 0
    /\ emitted = <<>>
    /\ ret = RetNone
    /\ since_stop = FALSE

Step(r) ==
    /\ revwalk' = r.revwalk
    /\ count' = r.count
    /\ ret' = r.ret
    /\ emitted' = IF r.ret.kind = "Ok" THEN Append(emitted, r.ret.time) ELSE emitted
    /\ since_stop' = (since_stop \/ r.since)
    /\ UNCHANGED <<walk, commits>>
    /\ UNCHANGED vt_vars
    /\ UNCHANGED db_vars
    /\ UNCHANGED ext_vars

WalkNext == Step(next(walk, revwalk, count))

WalkingNext == Step(walking_next(walk, revwalk, count))

SpecWalk == WalkInit /\ [][WalkNext]_vars

SpecWalking == WalkInit /\ [][WalkingNext]_vars

Consumed == Len(commits) - Len(revwalk)

\* C8: every commit the walker emits has since <= commit_time <= until, each
\* bound applying only when set; no commit is emitted when since > until.
C8_EmittedWithinBounds ==
    /\ \A i \in 1..Len(emitted) :
          /\ walk.since # None => walk.since[1] <= emitted[i]
          /\ walk.until # None => emitted[i] <= walk.until[1]
    /\ (walk.since # None /\ walk.until # None /\ walk.since[1] > walk.until[1])
          => emitted = <<>>

\* with both bounds set, a commit was emitted and another one was passed over
C8_Witness ==
    /\ walk.since # None
    /\ walk.until # None
    /\ Len(emitted) >= 1
    /\ Consumed > Len(emitted)
    /\ \E i \in 1..Consumed : commits[i].ok /\ commits[i].time > walk.until[1]

\* C9: with max_count = n set, at most n commits are emitted in total over
\* any number of next() calls; with n = 0 none is.
C9_AtMostMaxCount ==
    walk.max_count # None => Len(emitted) <= walk.max_count[1]

\* C10: once a call to next() has met a commit with commit_time < since, that
\* call and every later call emit no commit.
C10_SinceEndsWalk ==
    [][(since_stop \/ since_stop') => emitted' = emitted]_vars

\* C26: with until and max_count = n set and no since, the commits emitted
\* are the first n commits of the underlying sequence with commit_time <= until
\* (all of them when fewer than n were met): a commit newer than until neither
\* ends the walk nor counts toward max_count.
C26_FirstNWithinUntil ==
    (walk.since = None /\ walk.until # None /\ walk.max_count # None) =>
        LET seen == SelectSeq(SubSeq(commits, 1, Consumed),
                              LAMBDA c : c.ok /\ c.time <= walk.until[1])
            k == IF Len(seen) <= walk.max_count[1] THEN Len(seen) ELSE walk.max_count[1]
        IN emitted = [i \in 1..k |-> seen[i].time]

(***************************************************************************)
(* One hunk against one entity span                                        *)
(***************************************************************************)
\* the conversion of one diff hunk, intersected with the span of one entity
\* as get_changes does for the old and for the new side
Intersect(diff_hunk, span) ==
    /\ isect = None
    /\ LET h == hunk_try_from(diff_hunk) IN
       isect' = Some([diff_hunk |-> diff_hunk, span |-> span, hunk |-> h,
                      dels |-> intersect(h.old_interval, span),
                      adds |-> intersect(h.new_interval, span)])
    /\ UNCHANGED <<pair, linked, runs, ctx, attr, flush>>
    /\ UNCHANGED conv_vars
    /\ UNCHANGED repo_vars
    /\ UNCHANGED vt_vars
    /\ UNCHANGED db_vars
    /\ UNCHANGED walk_vars

IntersectNext == \E dh \in DiffHunks, sp \in Spans : Intersect(dh, sp)

SpecIntersect == DbInit /\ [][IntersectNext]_vars

\* the rows s..s+n-1 a hunk of n lines starting at row s changes
HunkRows(start, lines) == start..(start + lines - 1)

SpanRows(span) == span[1]..span[2]

\* C12: the adds (dels) attributed to an entity spanning inclusive rows a..b
\* by a hunk that changes rows s..s+n-1 equal the number of rows common to both
\* ranges.
C12_OverlapIsCommonRows ==
    isect # None =>
        LET c == isect[1] IN
        /\ c.adds = Cardinality(SpanRows(c.span) \cap
                                HunkRows(c.diff_hunk.new_start, c.diff_hunk.new_lines))
        /\ c.dels = Cardinality(SpanRows(c.span) \cap
                                HunkRows(c.diff_hunk.old_start, c.diff_hunk.old_lines))

(***************************************************************************)
(* get_changes on one DiffedFile                                           *)
(***************************************************************************)
\* the hunks of the diffed files: in-place changes of at most one line a side
AttrHunks ==
    {hunk_try_from(dh) : dh \in {x \in DiffHunks :
        /\ x.old_start = x.new_start
        /\ x.old_start >= 1
        /\ x.old_lines <= 1
        /\ x.new_lines <= 1
        /\ x.old_lines + x.new_lines >= 1}}

\* the DiffedFiles a delta with status Added, Deleted or Modified gives
DiffedFiles ==
    {DiffedFile("A.java", "c1", b[1], b[2], h) :
        b \in {x \in BlobOids \X BlobOids : x[1] # x[2]},
        h \in SeqsUpTo(AttrHunks, MaxHunks)}

GetChanges(df) ==
    /\ attr = None
    /\ LET r == get_changes(ctx, df) IN
       /\ ctx' = r.ctx
       /\ attr' = Some([df |-> df, changes |-> r.changes])
    /\ UNCHANGED <<isect, runs, linked, pair, flush>>
    /\ UNCHANGED conv_vars
    /\ UNCHANGED repo_vars
    /\ UNCHANGED vt_vars
    /\ UNCHANGED db_vars
    /\ UNCHANGED walk_vars

ChangesNext == \E df \in DiffedFiles : GetChanges(df)

SpecChanges == DbInit /\ [][ChangesNext]_vars

\* the located entities of a blob, as the parser returns them
BlobEntities(filename, blob) == IF blob = ZeroOid THEN <<>> ELSE RepoBlobs(filename)[blob]

NoTwoOfOneIdentity(les) ==
    \A i, j \in 1..Len(les) : les[i].entity = les[j].entity => i = j

RECURSIVE SumSeq(_)
SumSeq(ns) == IF ns = <<>> THEN 0 ELSE Head(ns) + SumSeq(Tail(ns))

\* the sum over all hunks of the overlap with the entity's span in the old
\* blob, 0 when the entity is absent from it
DelsOf(df, e) ==
    LET les == BlobEntities(df.filename, df.old_file)
        at == {i \in 1..Len(les) : les[i].entity = e}
        loc == les[CHOOSE i \in at : TRUE].loc
    IN IF at = {} THEN 0
       ELSE SumSeq([i \in 1..Len(df.hunks) |-> intersect(df.hunks[i].old_interval, loc)])

AddsOf(df, e) ==
    LET les == BlobEntities(df.filename, df.new_file)
        at == {i \in 1..Len(les) : les[i].entity = e}
        loc == les[CHOOSE i \in at : TRUE].loc
    IN IF at = {} THEN 0
       ELSE SumSeq([i \in 1..Len(df.hunks) |-> intersect(df.hunks[i].new_interval, loc)])

OldEntities(df) == EntitySet(BlobEntities(df.filename, df.old_file))

NewEntities(df) == EntitySet(BlobEntities(df.filename, df.new_file))

NoDuplicates(df) ==
    NoTwoOfOneIdentity(BlobEntities(df.filename, df.old_file)) /\ NoTwoOfOneIdentity(BlobEntities(df.filename, df.new_file))

\* C11 as stated: for a DiffedFile without two located entities of one
\* identity, get_changes emits for each entity of either blob a Change whose
\* dels and adds are the sums of the overlaps with its old and new span.
C11_ChangeForEachEntity ==
    (attr # None /\ NoDuplicates(attr[1].df)) =>
        \A e \in OldEntities(attr[1].df) \cup NewEntities(attr[1].df) :
            \E c \in attr[1].changes :
                /\ c.entity = e
                /\ c.dels = DelsOf(attr[1].df, e)
                /\ c.adds = AddsOf(attr[1].df, e)

\* C11, amended: every Change emitted carries those sums, and an entity of
\* either blob has a Change unless it is on both sides with both sums zero.
C11_SumsOnEmittedChanges ==
    (attr # None /\ NoDuplicates(attr[1].df)) =>
        LET df == attr[1].df IN
        /\ \A c \in attr[1].changes :
              /\ c.entity \in OldEntities(df) \cup NewEntities(df)
              /\ c.dels = DelsOf(df, c.entity)
              /\ c.adds = AddsOf(df, c.entity)
        /\ \A e \in OldEntities(df) \cup NewEntities(df) :
              (\E c \in attr[1].changes : c.entity = e)
                 <=> ~(/\ e \in OldEntities(df) \cap NewEntities(df)
                       /\ DelsOf(df, e) = 0
                       /\ AddsOf(df, e) = 0)

\* two hunks count on an entity present on both sides while another entity
\* of both sides is left untouched
C11_Witness ==
    /\ attr # None
    /\ NoDuplicates(attr[1].df)
    /\ Len(attr[1].df.hunks) >= 2
    /\ \E c \in attr[1].changes : c.adds >= 1 /\ c.dels >= 1
    /\ \E e \in OldEntities(attr[1].df) \cap NewEntities(attr[1].df) :
          \A c \in attr[1].changes : c.entity # e

\* C13: every Change emitted has kind Deleted iff its entity is among the old
\* blob's entities and not the new blob's, Added iff among the new blob's and
\* not the old blob's, Modified iff among both; no entity has two Changes.
C13_KindBySide ==
    attr # None =>
        LET df == attr[1].df IN
        /\ \A c \in attr[1].changes :
              /\ c.kind = "Deleted" <=> c.entity \in OldEntities(df) \ NewEntities(df)
              /\ c.kind = "Added" <=> c.entity \in NewEntities(df) \ OldEntities(df)
              /\ c.kind = "Modified" <=> c.entity \in OldEntities(df) \cap NewEntities(df)
        /\ \A c, d \in attr[1].changes : c.entity = d.entity => c = d

\* one call gave a Modified change with deletions only, next to a Deleted one
C13_Witness ==
    /\ attr # None
    /\ \E c \in attr[1].changes : c.kind = "Modified" /\ c.adds = 0 /\ c.dels > 0
    /\ \E c \in attr[1].changes : c.kind = "Deleted"

\* C14: when the old blob id is zero every Change emitted is Added with
\* dels = 0; when the new blob id is zero there is exactly one Change per
\* distinct entity of the old blob, each Deleted with adds = 0.
C14_AddedAndDeletedFiles ==
    attr # None =>
        LET df == attr[1].df IN
        /\ df.old_file = ZeroOid =>
              \A c \in attr[1].changes : c.kind = "Added" /\ c.dels = 0
        /\ df.new_file = ZeroOid =>
              /\ {c.entity : c \in attr[1].changes} = OldEntities(df)
              /\ Cardinality(attr[1].changes) = Cardinality(OldEntities(df))
              /\ \A c \in attr[1].changes : c.kind = "Deleted" /\ c.adds = 0

\* a file with three entities was deleted and none of its lines is in a hunk
C14_Witness ==
    /\ attr # None
    /\ attr[1].df.new_file = ZeroOid
    /\ Cardinality(attr[1].changes) = 3
    /\ \E c \in attr[1].changes : c.dels = 0

\* the overlap sums of the located entities of a blob, one per list position,
\* side 1 being the old intervals and side 2 the new ones
PositionSums(df, les, side) ==
    [i \in 1..Len(les) |->
        SumSeq([h \in 1..Len(df.hunks) |->
                   intersect(IF side = 1 THEN df.hunks[h].old_interval
                             ELSE df.hunks[h].new_interval, les[i].loc)])]

\* the sum of the last located entity of identity e with a positive sum, 0 when
\* there is none
LastPositive(df, les, side, e) ==
    LET sums == PositionSums(df, les, side)
        at == {i \in 1..Len(les) : les[i].entity = e /\ sums[i] > 0}
    IN IF at = {} THEN 0 ELSE sums[CHOOSE i \in at : \A j \in at : j <= i]

C30_ModifiedIsTouched ==
    attr # None =>
        LET df == attr[1].df IN
        /\ \A c \in attr[1].changes : c.kind = "Modified" => (c.adds > 0 \/ c.dels > 0)
        /\ \A e \in OldEntities(df) \ NewEntities(df) :
              \E c \in attr[1].changes : c.entity = e /\ c.kind = "Deleted"
        /\ \A e \in NewEntities(df) \ OldEntities(df) :
              \E c \in attr[1].changes : c.entity = e /\ c.kind = "Added"

\* an Added Change without any line next to a Modified one, between two blobs
\* that both exist
C30_Witness ==
    /\ attr # None
    /\ attr[1].df.old_file # ZeroOid
    /\ attr[1].df.new_file # ZeroOid
    /\ \E c \in attr[1].changes : c.kind = "Added" /\ c.adds = 0 /\ c.dels = 0
    /\ \E c \in attr[1].changes : c.kind = "Modified"

(***************************************************************************)
(* Repeated get_entities calls on one ExtractionCtx                        *)
(***************************************************************************)
GetEntities(filename, blob) ==
    /\ Len(calls) < MaxCalls
    /\ LET r == get_entities(ctx, filename, blob) IN
       /\ ctx' = r.ctx
       /\ calls' = Append(calls, [key |-> <<filename, blob>>, val |-> r.val])
    /\ UNCHANGED <<isect, runs, linked, pair, attr, diffed, ir_ref, pres, flush>>
    /\ UNCHANGED conv_vars
    /\ UNCHANGED vt_vars
    /\ UNCHANGED db_vars
    /\ UNCHANGED walk_vars

CacheNext == \E f \in FileNames, b \in BlobOids : GetEntities(f, b)

SpecCache == DbInit /\ [][CacheNext]_vars

\* C16: the parser runs at most once per distinct (path, blob id) and never
\* for the all-zero blob id, whose list is empty; calls with the same key
\* return the same list.
C16_ParsedOncePerKey ==
    /\ \A i, j \in 1..Len(ctx.parses) : ctx.parses[i] = ctx.parses[j] => i = j
    /\ \A i \in 1..Len(ctx.parses) : ctx.parses[i][2] # ZeroOid
    /\ \A i \in 1..Len(calls) :
          /\ calls[i].key[2] = ZeroOid => calls[i].val = <<>>
          /\ \A j \in 1..Len(calls) : calls[i].key = calls[j].key => calls[i].val = calls[j].val

\* a key was asked for twice and the same blob once under another path: the
\* parser ran twice
C16_Witness ==
    /\ \E i, j \in 1..Len(calls) : i < j /\ calls[i].key = calls[j].key /\ calls[i].val # <<>>
    /\ \E i, j \in 1..Len(calls) :
          /\ calls[i].key[2] = calls[j].key[2]
          /\ calls[i].key[1] # calls[j].key[1]
          /\ calls[i].val # <<>>
    /\ Len(ctx.parses) = 2

(***************************************************************************)
(* The repository and diff_all_files (extraction.rs, gtl.rs)               *)
(***************************************************************************)
\* the characters of the paths and suffixes in use
Chars ==
    [A_java |-> <<"A", ".", "j", "a", "v", "a">>,
     B_JAVA |-> <<"B", ".", "J", "A", "V", "A">>,
     C_txt |-> <<"C", ".", "t", "x", "t">>,
     d_java |-> <<"d", ".", "j", "a", "v", "a">>]

\* char::to_lowercase on the characters in use
LowerChar(ch) ==
    CASE ch = "A" -> "a"
      [] ch = "B" -> "b"
      [] ch = "C" -> "c"
      [] ch = "J" -> "j"
      [] ch = "V" -> "v"
      [] OTHER -> ch

\* str::to_lowercase
to_lowercase(str) == [i \in 1..Len(str) |-> LowerChar(str[i])]

\* str::ends_with
ends_with(str, suffix) ==
    /\ Len(suffix) <= Len(str)
    /\ SubSeq(str, Len(str) - Len(suffix) + 1, Len(str)) = suffix

\* the suffix main passes to the collectors
Suffix == <<".", "j", "a", "v", "a">>

\* the blob paths of the trees
TreePaths == {"A_java", "B_JAVA", "C_txt"}

\* a git tree: the blob id at every path, the zero id where the path is absent
Trees ==
    {[p \in TreePaths |-> IF p \in present THEN v ELSE ZeroOid] :
        present \in SUBSET TreePaths, v \in {"b1", "b2", "b3"}}

EmptyTree == [p \in TreePaths |-> ZeroOid]

\* git2::Commit
GitCommit(id, parents, tree, when) ==
    [id |-> id, parents |-> parents, tree |-> tree, author |-> when, committer |-> when]

GitTime(seconds, offset_minutes) == [seconds |-> seconds, offset_minutes |-> offset_minutes]

\* a repository of three commits: a root, its child, and a merge of the two
\* which keeps the child's tree
Repo(r_tree, c_tree) ==
    LET r == GitCommit("r", <<>>, r_tree, GitTime(1, 0))
        c == GitCommit("c", <<r>>, c_tree, GitTime(2, 60))
        m == GitCommit("m", <<r, c>>, c_tree, GitTime(3, 0))
    IN [r |-> r, c |-> c, m |-> m]

Repos == {Repo(rt, ct) : rt \in Trees, ct \in Trees}

\* gtl::to_datetime
to_datetime(time) == [unix |-> time.seconds, offset |-> time.offset_minutes * 60]

IrCommit(sha1, is_merge, author_date, commit_date) ==
    [sha1 |-> sha1, is_merge |-> is_merge, author_date |-> author_date,
     commit_date |-> commit_date]

\* gtl::to_commit
to_commit(commit) ==
    IrCommit(commit.id, Len(commit.parents) > 1,
             to_datetime(commit.author), to_datetime(commit.committer))

Ref(commit, name) == [commit |-> commit, name |-> name]

\* gtl::to_ref on a reference [name, target]
to_ref(ref) == Ref(to_commit(ref.target), ref.name)

\* a git2::DiffDelta with the hunks the diff holds for it; the paths are
\* Option<&Path>
DiffDelta(status, old_path, new_path, old_file, new_file, hunks) ==
    [status |-> status, old_path |-> old_path, new_path |-> new_path,
     old_file |-> old_file, new_file |-> new_file, hunks |-> hunks]

\* the hunks of a delta, with context_lines(0): a whole blob of three lines
\* when one side is absent, else the lines in which the blobs differ
delta_hunks(status) ==
    CASE status = "Added" ->
           <<[old_start |-> 0, old_lines |-> 0, new_start |-> 1, new_lines |-> 3]>>
      [] status = "Deleted" ->
           <<[old_start |-> 1, old_lines |-> 3, new_start |-> 0, new_lines |-> 0]>>
      [] OTHER ->
           <<[old_start |-> 1, old_lines |-> 1, new_start |-> 1, new_lines |-> 1],
             [old_start |-> 3, old_lines |-> 1, new_start |-> 3, new_lines |-> 1]>>

\* Repository::diff_tree_to_tree: one delta per path whose blob differs, the
\* path on both of its sides
diff_tree_to_tree(old_tree, new_tree) ==
    {LET status == IF old_tree[p] = ZeroOid THEN "Added"
                   ELSE IF new_tree[p] = ZeroOid THEN "Deleted" ELSE "Modified"
     IN DiffDelta(status, Some(p), Some(p), old_tree[p], new_tree[p], delta_hunks(status)) :
        p \in {q \in TreePaths : old_tree[q] # new_tree[q]}}

\* get_diff_delta_path: Err on no path at all and on two different paths
get_diff_delta_path(diff_delta) ==
    LET old_path == diff_delta.old_path
        new_path == diff_delta.new_path
    IN CASE old_path = None /\ new_path = None -> [ok |-> FALSE]
         [] old_path = None /\ new_path # None -> [ok |-> TRUE, value |-> new_path[1]]
         [] old_path # None /\ new_path = None -> [ok |-> TRUE, value |-> old_path[1]]
         [] OTHER -> IF old_path[1] # new_path[1] THEN [ok |-> FALSE]
                     ELSE [ok |-> TRUE, value |-> old_path[1]]

\* gtl::to_diffed_file
to_diffed_file(name, commit, delta) ==
    DiffedFile(name, to_commit(commit), delta.old_file, delta.new_file, <<>>)

\* mutant: a commit with several parents is diffed against its first parent
diff_base_first_parent(commit) ==
    IF Len(commit.parents) = 0 THEN Some(EmptyTree) ELSE Some(commit.parents[1].tree)

\* the match on parents.len(): the old tree, or None for the commits skipped
diff_base(commit) ==
    CASE Len(commit.parents) = 0 -> Some(EmptyTree)
      [] Len(commit.parents) = 1 -> Some(commit.parents[1].tree)
      [] OTHER -> None

\* the filter of the hunk callback: filename.to_lowercase().ends_with(suffix)
is_selected(filename, suffix) == ends_with(to_lowercase(Chars[filename]), suffix)

\* the statuses the hunk callback accepts
SupportedStatus == {"Added", "Deleted", "Modified"}

\* mutant: the path of the delta is taken before its status is looked at
hunk_callback_path_first(st, commit, delta, diff_hunk, suffix) ==
    LET filename == get_diff_delta_path(delta) IN
    IF ~filename.ok THEN [st EXCEPT !.panic = TRUE]
    ELSE IF delta.status \notin SupportedStatus THEN st
    ELSE IF ~is_selected(filename.value, suffix) THEN st
    ELSE LET hit == {x \in st.files :
                       x.filename = filename.value /\ x.commit.sha1 = commit.id}
             diffed_file == IF hit # {} THEN CHOOSE x \in hit : TRUE
                            ELSE to_diffed_file(filename.value, commit, delta)
         IN [st EXCEPT !.files = (st.files \ hit)
               \cup {[diffed_file EXCEPT !.hunks = Append(@, hunk_try_from(diff_hunk))]}]

\* the hunk callback of diff.foreach on one hunk of one delta; st.files is
\* the diffed_files map keyed by (filename, commit id), held as the set of its
\* values, st.panic is set when the expect on get_diff_delta_path panicked
hunk_callback(st, commit, delta, diff_hunk, suffix) ==
    IF delta.status \notin SupportedStatus THEN st
    ELSE LET filename == get_diff_delta_path(delta) IN
         IF ~filename.ok THEN [st EXCEPT !.panic = TRUE]
         ELSE IF ~is_selected(filename.value, suffix) THEN st
         ELSE LET hit == {x \in st.files :
                            x.filename = filename.value /\ x.commit.sha1 = commit.id}
                  diffed_file == IF hit # {} THEN CHOOSE x \in hit : TRUE
                                 ELSE to_diffed_file(filename.value, commit, delta)
              IN [st EXCEPT !.files = (st.files \ hit)
                    \cup {[diffed_file EXCEPT
                              !.hunks = Append(@, hunk_try_from(diff_hunk))]}]

RECURSIVE hunks_loop(_, _, _, _, _)
\* the hunks of one delta, up to a panic of the callback
hunks_loop(st, commit, delta, diff_hunks, suffix) ==
    IF diff_hunks = <<>> \/ st.panic THEN st
    ELSE hunks_loop(hunk_callback(st, commit, delta, Head(diff_hunks), suffix),
                    commit, delta, Tail(diff_hunks), suffix)

RECURSIVE foreach(_, _, _, _)
\* diff.foreach: the hunk callback on every hunk of every delta
foreach(st, commit, deltas, suffix) ==
    IF deltas = {} \/ st.panic THEN st
    ELSE LET delta == CHOOSE x \in deltas : TRUE
         IN foreach(hunks_loop(st, commit, delta, delta.hunks, suffix),
                    commit, deltas \ {delta}, suffix)

RECURSIVE commits_loop(_, _, _)
\* for commit in commits { .. }
commits_loop(st, cs, suffix) ==
    IF cs = <<>> \/ st.panic THEN st
    ELSE LET commit == Head(cs)
             base == diff_base(commit)
         IN commits_loop(IF base = None THEN st
                         ELSE foreach(st, commit,
                                      diff_tree_to_tree(base[1], commit.tree), suffix),
                         Tail(cs), suffix)

\* the map before the first commit
NoDiffedFiles == [files |-> {}, panic |-> FALSE]

\* Ok(diffed_files.into_values().collect()), unless a panic ended the run; the
\* values are held in no particular order
into_values(st) == IF st.panic THEN [ok |-> FALSE] ELSE [ok |-> TRUE, value |-> st.files]

\* diff_all_files
diff_all_files(cs, suffix) == into_values(commits_loop(NoDiffedFiles, cs, suffix))

\* the references of the repository
RepoRefs(repo) ==
    {[name |-> "refs/heads/main", target |-> repo.m],
     [name |-> "refs/heads/topic", target |-> repo.c],
     [name |-> "refs/tags/v1", target |-> repo.r]}

(***************************************************************************)
(* diff_all_files and to_ref on the repository                             *)
(***************************************************************************)
\* the commit lists a walk can give: distinct commits in any order
CommitLists(repo) ==
    {cs \in SeqsUpTo({repo.r, repo.c, repo.m}, MaxCommits) :
        \A i, j \in 1..Len(cs) : cs[i] = cs[j] => i = j}

DiffAllFiles(repo, cs) ==
    /\ diffed = None
    /\ LET r == diff_all_files(cs, Suffix) IN
       diffed' = Some([repo |-> repo, commits |-> cs, ok |-> r.ok,
                       diffed_files |-> IF r.ok THEN r.value ELSE {}])
    /\ UNCHANGED <<isect, runs, linked, pair, ctx, attr, calls, ir_ref, pres, flush>>
    /\ UNCHANGED conv_vars
    /\ UNCHANGED vt_vars
    /\ UNCHANGED db_vars
    /\ UNCHANGED walk_vars

ToRef(ref) ==
    /\ ir_ref = None
    /\ ir_ref' = Some([ref |-> ref, val |-> to_ref(ref)])
    /\ UNCHANGED <<isect, runs, linked, pair, ctx, attr, calls, diffed, pres, flush>>
    /\ UNCHANGED conv_vars
    /\ UNCHANGED vt_vars
    /\ UNCHANGED db_vars
    /\ UNCHANGED walk_vars

DiffNext ==
    \/ \E repo \in Repos : \E cs \in CommitLists(repo) : DiffAllFiles(repo, cs)
    \/ \E ref \in RepoRefs(Repo(EmptyTree, EmptyTree)) : ToRef(ref)

SpecDiff == DbInit /\ [][DiffNext]_vars

\* the blob id a tree holds at a path
BlobAt(tree, path) == tree[path]

\* C15: diff_all_files gives no DiffedFile for a commit with more than one
\* parent; a DiffedFile of a commit with one parent holds the parent's and the
\* commit's blob of the path, one of a commit without parent the zero id and
\* the commit's blob; is_merge of a converted commit is true exactly when the
\* commit has more than one parent.
C15_DiffAgainstOnlyParent ==
    /\ diffed # None =>
          \A df \in diffed[1].diffed_files :
             \E i \in 1..Len(diffed[1].commits) :
                LET commit == diffed[1].commits[i] IN
                /\ df.commit.sha1 = commit.id
                /\ Len(commit.parents) <= 1
                /\ df.commit.is_merge = FALSE
                /\ df.new_file = BlobAt(commit.tree, df.filename)
                /\ Len(commit.parents) = 1 =>
                      df.old_file = BlobAt(commit.parents[1].tree, df.filename)
                /\ Len(commit.parents) = 0 => df.old_file = ZeroOid
                /\ df.old_file # df.new_file
    /\ diffed # None =>
          \A i \in 1..Len(diffed[1].commits) :
             LET commit == diffed[1].commits[i] IN
             \A p \in TreePaths :
                (/\ Len(commit.parents) <= 1
                 /\ is_selected(p, Suffix)
                 /\ BlobAt(commit.tree, p) #
                       (IF commit.parents = <<>> THEN ZeroOid
                        ELSE BlobAt(commit.parents[1].tree, p)))
                   => \E df \in diffed[1].diffed_files :
                         df.filename = p /\ df.commit.sha1 = commit.id
    /\ ir_ref # None =>
          (ir_ref[1].val.commit.is_merge <=> Len(ir_ref[1].ref.target.parents) > 1)

\* the root, its child and the merge were all diffed: the root and the child
\* gave a DiffedFile each, the merge none although its tree differs from its
\* first parent's; and the merge was converted for a reference
C15_Witness ==
    /\ diffed # None
    /\ Len(diffed[1].commits) = 3
    /\ diffed[1].repo.m.tree # diffed[1].repo.r.tree
    /\ \E df \in diffed[1].diffed_files : df.commit.sha1 = "r" /\ df.old_file = ZeroOid
    /\ \E df \in diffed[1].diffed_files : df.commit.sha1 = "c" /\ df.old_file # ZeroOid
    /\ ir_ref # None
    /\ ir_ref[1].val.commit.is_merge

(***************************************************************************)
(* The presence sweep: get_presences, then insert_presence on each         *)
(***************************************************************************)
\* what tree.walk visits in pre-order: the blobs of the tree in name order,
\* and a directory whose name ends with the suffix
walk_entries(tree) ==
    LET order == <<"A_java", "B_JAVA", "C_txt">>
        blob(i) == [dir |-> "", name |-> order[i], kind |-> "Blob", id |-> tree[order[i]]]
        F[i \in 0..Len(order)] ==
            IF i = 0 THEN <<>>
            ELSE IF tree[order[i]] = ZeroOid THEN F[i - 1]
            ELSE Append(F[i - 1], blob(i))
    IN Append(F[Len(order)], [dir |-> "", name |-> "d_java", kind |-> "Tree", id |-> "t1"])

\* mutant: the sweep lowers the path before the test, as the diff collector does
sweep_selects_lowercase(filename, suffix) == ends_with(to_lowercase(Chars[filename]), suffix)

\* the filter of the tree walk callback: filename.ends_with(suffix)
sweep_selects(filename, suffix) == ends_with(Chars[filename], suffix)

RECURSIVE walk_callback(_, _, _)
\* tree.walk with the callback that collects (filename, blob id)
walk_callback(blobs, entries, suffix) ==
    IF entries = <<>> THEN blobs
    ELSE LET entry == Head(entries) IN
         walk_callback(IF entry.kind # "Blob" THEN blobs
                       ELSE IF ~sweep_selects(entry.name, suffix) THEN blobs
                       ELSE Append(blobs, <<entry.name, entry.id>>),
                       Tail(entries), suffix)

Presence(loc_entity, commit) == [loc_entity |-> loc_entity, commit |-> commit]

RECURSIVE presences_loop(_, _, _, _)
\* for (filename, blob) in &blobs { for loc_entity in ctx.get_entities(..) { push } }
presences_loop(c, presences, blobs, commit) ==
    IF blobs = <<>> THEN [ctx |-> c, presences |-> presences]
    ELSE LET r == get_entities(c, Head(blobs)[1], Head(blobs)[2])
         IN presences_loop(r.ctx,
                           presences \o [i \in 1..Len(r.val) |-> Presence(r.val[i], commit)],
                           Tail(blobs), commit)

\* get_presences; tree is the tree of the commit in the repository
get_presences(c, commit, tree, suffix) ==
    presences_loop(c, <<>>, walk_callback(<<>>, walk_entries(tree), suffix), commit)

RECURSIVE insert_presences(_, _)
\* insert_presence on every presence, in order, up to a panic
insert_presences(d, presences) ==
    IF presences = <<>> THEN [db |-> d, panic |-> FALSE]
    ELSE LET r == insert_presence(d, [loc_entity |-> Head(presences).loc_entity,
                                      commit |-> Head(presences).commit.sha1])
         IN IF r.panic THEN [db |-> r.db, panic |-> TRUE]
            ELSE insert_presences(r.db, Tail(presences))

\* the ir::Commit of a commit of the repository
TipCommits ==
    {IrCommit(c.id, c.parent_count > 1, c.author_time, c.commit_time) : c \in RepoCommits}

Sweep(commit, tree) ==
    /\ ~panicked
    /\ pres = None
    /\ db_out.status = "none"
    /\ LET g == get_presences(ctx, commit, tree, Suffix)
           r == insert_presences(db, g.presences)
       IN /\ ctx' = g.ctx
          /\ pres' = Some([commit |-> commit, tree |-> tree, presences |-> g.presences])
          /\ db' = r.db
          /\ panicked' = r.panic
    /\ UNCHANGED <<db_out, db_last, db_dup, tag_slot, parsed>>
    /\ UNCHANGED <<isect, runs, linked, pair, attr, calls, diffed, ir_ref, flush>>
    /\ UNCHANGED conv_vars
    /\ UNCHANGED vt_vars
    /\ UNCHANGED walk_vars

PresenceNext ==
    \/ \E c \in RepoCommits : InsertCommit(c)
    \/ \E commit \in TipCommits, tree \in Trees : Sweep(commit, tree)

SpecPresence == DbInit /\ [][PresenceNext]_vars

\* the located entities of the blobs of a tree whose path ends with the suffix
SweptLocEntities(tree) ==
    UNION {{[path |-> p, at |-> i] : i \in 1..Len(BlobEntities(p, tree[p]))} :
              p \in {q \in TreePaths : ends_with(Chars[q], Suffix)}}

LocEntityAt(tree, x) == BlobEntities(x.path, tree[x.path])[x.at]

\* the row of the presence table that stands for a located entity of the tip
RowOf(le, commit_id, row) ==
    /\ row.key.commit_id = commit_id
    /\ RowPath(db.entity_vt, row.key.entity_id, MaxDepth + 1) = PathOf(le.entity)
    /\ row.extra = PresenceExtra(le.loc[1], le.loc[2])

IsFirstOfIdentity(tree, x) ==
    \A j \in 1..(x.at - 1) :
        BlobEntities(x.path, tree[x.path])[j].entity # LocEntityAt(tree, x).entity

RECURSIVE RootName(_)
\* the name of the file entity an entity hangs under
RootName(e) == IF e.parent = None THEN e.name ELSE RootName(e.parent[1])

\* the paths whose blobs the sweep went through
SweptPaths == {RootName(pres[1].presences[i].loc_entity.entity) : i \in 1..Len(pres[1].presences)}

\* C18: the presence sweep selects the blobs by the same case-insensitive
\* suffix test as the diff collector: a blob of the tip's tree is swept
\* exactly when its path in lower case ends with the suffix.
C18_SameFilterInSweep ==
    pres # None =>
        \A p \in TreePaths :
            p \in SweptPaths <=> (pres[1].tree[p] # ZeroOid /\ is_selected(p, Suffix))

(***************************************************************************)
(* The final write of main (main.rs)                                       *)
(***************************************************************************)
\* the tables main writes, in order, with the table each init script creates
MainTables == <<"entities", "commits", "changes">>

MainTableAt(d, i) == CASE i = 1 -> d.entity_vt [] i = 2 -> d.commit_vt [] OTHER -> d.change_vt

\* the virtual tables main can have built: nothing, or a commit and a change
FlushDbs ==
    {NewDb} \cup
    UNION {{insert_change(insert_commit(NewDb, c).db, ch).db :
               ch \in {x \in Changes : x.commit = c.id}} : c \in RepoCommits}

\* a store file without tables
EmptyStore == [tables |-> {}, rows |-> {}]

\* db.execute(init_script) outside a transaction: the table exists in the
\* store as soon as the statement returns
init_script(store, i) ==
    LET st == IF store = None THEN EmptyStore ELSE store[1]
    IN Some([st EXCEPT !.tables = @ \cup {MainTables[i]}])

\* every row of the tables main writes
AllRows(d) ==
    UNION {{<<MainTables[i], r>> : r \in MainTableAt(d, i).map} : i \in 1..3}

\* Connection::open(cli.db)
FlushOpen(d) ==
    /\ flush.pc = "start"
    /\ flush' = [flush EXCEPT !.pc = "init", !.n = 0, !.vdb = d]
    /\ UNCHANGED <<isect, runs, linked, pair, ctx, attr>>
    /\ UNCHANGED conv_vars
    /\ UNCHANGED repo_vars
    /\ UNCHANGED vt_vars
    /\ UNCHANGED db_vars
    /\ UNCHANGED walk_vars

\* the three db.execute(init_script, params![])?
FlushInit(fail) ==
    /\ flush.pc = "init"
    /\ flush.n < 3
    /\ flush' = IF fail THEN [flush EXCEPT !.pc = "failed"]
                ELSE [flush EXCEPT !.n = @ + 1, !.store = init_script(@, flush.n + 1)]
    /\ UNCHANGED <<isect, runs, linked, pair, ctx, attr>>
    /\ UNCHANGED conv_vars
    /\ UNCHANGED repo_vars
    /\ UNCHANGED vt_vars
    /\ UNCHANGED db_vars
    /\ UNCHANGED walk_vars

\* db.transaction()?
FlushBegin ==
    /\ flush.pc = "init"
    /\ flush.n = 3
    /\ flush' = [flush EXCEPT !.pc = "write", !.n = 0, !.tx = Some({})]
    /\ UNCHANGED <<isect, runs, linked, pair, ctx, attr>>
    /\ UNCHANGED conv_vars
    /\ UNCHANGED repo_vars
    /\ UNCHANGED vt_vars
    /\ UNCHANGED db_vars
    /\ UNCHANGED walk_vars

\* the three vt.write::<W>(&tx)?; an Err drops the transaction, which rolls back
FlushWrite(order, fail) ==
    /\ flush.pc = "write"
    /\ flush.n < 3
    /\ LET w == write(MainTableAt(flush.vdb, flush.n + 1), order, fail)
           rows == {<<MainTables[flush.n + 1], w.rows[i]>> : i \in 1..Len(w.rows)}
       IN flush' = IF w.status = "err" THEN [flush EXCEPT !.pc = "failed", !.tx = None]
                   ELSE [flush EXCEPT !.n = @ + 1, !.tx = Some(@[1] \cup rows)]
    /\ UNCHANGED <<isect, runs, linked, pair, ctx, attr>>
    /\ UNCHANGED conv_vars
    /\ UNCHANGED repo_vars
    /\ UNCHANGED vt_vars
    /\ UNCHANGED db_vars
    /\ UNCHANGED walk_vars

\* tx.commit()?
FlushCommit(fail) ==
    /\ flush.pc = "write"
    /\ flush.n = 3
    /\ flush' = IF fail THEN [flush EXCEPT !.pc = "failed", !.tx = None]
                ELSE [flush EXCEPT !.pc = "done", !.tx = None,
                                   !.store = Some([@[1] EXCEPT !.rows = @ \cup flush.tx[1]])]
    /\ UNCHANGED <<isect, runs, linked, pair, ctx, attr>>
    /\ UNCHANGED conv_vars
    /\ UNCHANGED repo_vars
    /\ UNCHANGED vt_vars
    /\ UNCHANGED db_vars
    /\ UNCHANGED walk_vars

\* the process stops before the commit
FlushCrash ==
    /\ flush.pc \in {"init", "write"}
    /\ flush' = [flush EXCEPT !.pc = "crashed", !.tx = None]
    /\ UNCHANGED <<isect, runs, linked, pair, ctx, attr>>
    /\ UNCHANGED conv_vars
    /\ UNCHANGED repo_vars
    /\ UNCHANGED vt_vars
    /\ UNCHANGED db_vars
    /\ UNCHANGED walk_vars

FlushNext ==
    \/ \E d \in FlushDbs : FlushOpen(d)
    \/ \E fail \in BOOLEAN : FlushInit(fail)
    \/ FlushBegin
    \/ \E order \in IterOrders(MainTableAt(flush.vdb, flush.n + 1).map),
          fail \in Failures(len(MainTableAt(flush.vdb, flush.n + 1))) :
             FlushWrite(order, fail)
    \/ \E fail \in BOOLEAN : FlushCommit(fail)
    \/ FlushCrash

SpecFlush == DbInit /\ [][FlushNext]_vars

\* C19: the final write is atomic: when a table write fails or the process
\* stops before the commit, the store holds none of the run's tables or rows
\* (it is absent or unchanged); after the commit it holds every row of every
\* table written.
C19_FlushIsAtomic ==
    /\ flush.pc \in {"failed", "crashed"} =>
          (flush.store = None \/ flush.store[1] = EmptyStore)
    /\ flush.pc = "done" =>
          (flush.store # None /\ flush.store[1].rows = AllRows(flush.vdb))

(***************************************************************************)
(* insert_change, insert_presence and insert_ref in any order              *)
(***************************************************************************)
RefKey(name) == [name |-> name]

RefExtra(commit_id) == [commit_id |-> commit_id]

\* the references of the repository: git2::Reference, as insert_ref reads it
DbRefs == {[name |-> "refs/heads/main", commit |-> c] : c \in RepoCommits}

\* insert_ref: insert_commit on the peeled commit, then the ref row
insert_ref(d, ref) ==
    LET c == insert_commit(d, ref.commit)
        r == insert(c.db.ref_vt, RefKey(ref.name), RefExtra(c.id))
    IN [db |-> [c.db EXCEPT !.ref_vt = r.vt], id |-> r.id]

InsertRef(ref) ==
    /\ ~panicked
    /\ db_out.status = "none"
    /\ LET r == insert_ref(db, ref) IN
       /\ Fits(r.db)
       /\ db' = r.db
    /\ UNCHANGED <<db_out, db_last, db_dup, tag_slot, panicked, parsed>>
    /\ UNCHANGED vt_vars
    /\ UNCHANGED walk_vars
    /\ UNCHANGED ext_vars

RefsNext ==
    \/ \E ch \in Changes : InsertChange(ch)
    \/ \E pr \in Presences : InsertPresence(pr)
    \/ \E ref \in DbRefs : InsertRef(ref)

SpecRefs == DbInit /\ [][RefsNext]_vars

\* C20: in any order of insert_change, insert_presence and insert_ref calls,
\* every call inserts the commit and the entity it refers to before it stores
\* its row: no call fails because its commit was not inserted earlier.
C20_NoCallNeedsEarlierCommit == ~panicked

(***************************************************************************)
(* Interval::intersect on arbitrary pairs                                  *)
(***************************************************************************)
\* every Interval(usize, usize) up to MaxLine, end < start included
AnyIntervals == {Interval(a, b) : a \in 0..MaxLine, b \in 0..MaxLine}

IntersectPair(a, b) ==
    /\ pair = None
    /\ pair' = Some([a |-> a, b |-> b, ab |-> intersect(a, b), ba |-> intersect(b, a)])
    /\ UNCHANGED <<isect, linked, runs, ctx, attr, flush>>
    /\ UNCHANGED conv_vars
    /\ UNCHANGED repo_vars
    /\ UNCHANGED vt_vars
    /\ UNCHANGED db_vars
    /\ UNCHANGED walk_vars

PairNext == \E a \in AnyIntervals, b \in AnyIntervals : IntersectPair(a, b)

SpecPair == DbInit /\ [][PairNext]_vars

\* C21: for all intervals a and b, disjoint ones and ones with end < start
\* included, intersect(a, b) is max(0, min(a.end, b.end) - max(a.start,
\* b.start)); it is a usize (never negative, no underflow) and
\* intersect(a, b) = intersect(b, a).
C21_IntersectFormula ==
    pair # None =>
        LET a == pair[1].a
            b == pair[1].b
            lo == IF a[1] >= b[1] THEN a[1] ELSE b[1]
            hi == IF a[2] <= b[2] THEN a[2] ELSE b[2]
            d == hi - lo
        IN /\ pair[1].ab = (IF d > 0 THEN d ELSE 0)
           /\ pair[1].ab \in Nat
           /\ pair[1].ab = pair[1].ba

\* an interval with end < start met a disjoint one: the subtraction would
\* have gone below zero
C21_Witness ==
    /\ pair # None
    /\ pair[1].a[2] < pair[1].a[1]
    /\ pair[1].b[1] > pair[1].a[2]
    /\ pair[1].b[1] <= pair[1].b[2]
    /\ pair[1].ab = 0

\* C22: for every interval a of 1-based inclusive rows (start <= end),
\* intersect(a, a) is the number of rows a covers.
C22_SelfIntersectIsLength ==
    (pair # None /\ pair[1].a = pair[1].b /\ 1 <= pair[1].a[1] /\ pair[1].a[1] <= pair[1].a[2])
        => pair[1].ab = Cardinality(pair[1].a[1]..pair[1].a[2])


(***************************************************************************)
(* FileParser::parse on the matches of one syntax tree                     *)
(***************************************************************************)
\* a query match: the name capture and the tag.<kind> capture, either of
\* which the match may lack
Captures ==
    [name : {None} \cup {Some(nm) : nm \in Idents},
     tag : {None} \cup {Some([node |-> n, kind |-> kd, range |-> rg]) :
                            n \in 1..MaxNodes, kd \in TagKinds, rg \in Ranges}]

\* TagBuilder::build after the capture loop: Err when a field was never set
tag_build(tree, captures) ==
    IF captures.name = None \/ captures.tag = None THEN [ok |-> FALSE]
    ELSE [ok |-> TRUE,
          value |-> PreTag(tree, captures.tag[1].node, captures.name[1],
                           captures.tag[1].kind, captures.tag[1].range)]

RECURSIVE match_loop(_, _, _)
\* the loop over cursor.matches: pre_tags.push(builder.build()?)
match_loop(tree, matches, pre_tags) ==
    IF matches = <<>> THEN [ok |-> TRUE, value |-> pre_tags]
    ELSE LET built == tag_build(tree, Head(matches))
         IN IF ~built.ok THEN [ok |-> FALSE]
            ELSE match_loop(tree, Tail(matches), Append(pre_tags, built.value))

\* FileParser::parse from the matches on
parse_matches(filename, root_range, tree, matches) ==
    LET pre_tags == match_loop(tree, matches, <<>>)
    IN IF ~pre_tags.ok THEN [ok |-> FALSE]
       ELSE [ok |-> TRUE, value |-> parse(filename, root_range, pre_tags.value)]

\* the match lists of one blob: at most MaxTags matches, no node tagged twice
CaptureLists ==
    UNION {{m \in [1..k -> Captures] :
                \A i, j \in 1..k :
                    (i # j /\ m[i].tag # None /\ m[j].tag # None)
                        => m[i].tag[1].node # m[j].tag[1].node}
           : k \in 0..MaxTags}

\* the closure of get_entities on a blob not in the cache:
\* self.parser.parse(blob.content(), filename).unwrap()
ParseBlob(filename, tree, matches) ==
    /\ linked = None
    /\ LET res == parse_matches(filename, WholeFile, tree, matches) IN
       linked' = Some([filename |-> filename, tree |-> tree, matches |-> matches,
                       res |-> res, panic |-> ~res.ok])
    /\ UNCHANGED <<isect, pair, runs, ctx, attr, flush>>
    /\ UNCHANGED conv_vars
    /\ UNCHANGED repo_vars
    /\ UNCHANGED vt_vars
    /\ UNCHANGED db_vars
    /\ UNCHANGED walk_vars

\* the path the parsed blob sits at
LinkFiles == {"A.java"}

LinkNext ==
    \E f \in LinkFiles, tree \in SyntaxTrees, m \in CaptureLists : ParseBlob(f, tree, m)

SpecLink == DbInit /\ [][LinkNext]_vars

\* the matches that carry both captures
Complete(matches) == SelectSeq(matches, LAMBDA c : c.name # None /\ c.tag # None)

TaggedNodes(matches) == {matches[i].tag[1].node : i \in 1..Len(matches)}

RECURSIVE Enclosing(_, _, _)
\* the nearest node of `tagged` from `curr` upwards, 0 when there is none
Enclosing(tree, curr, tagged) ==
    IF curr = 0 THEN 0
    ELSE IF curr \in tagged THEN curr
    ELSE Enclosing(tree, tree[curr], tagged)

FileRoot(filename) == [name |-> filename, kind |-> "file", disc |-> "", parent |-> None]

RECURSIVE EntityOf(_, _, _, _)
\* the entity of the match on `node`: named and kinded by its captures, under
\* the entity of the nearest enclosing tagged node, else under the file root
EntityOf(filename, tree, matches, node) ==
    LET c == CHOOSE c \in {matches[i] : i \in 1..Len(matches)} : c.tag[1].node = node
        up == Enclosing(tree, tree[node], TaggedNodes(matches))
    IN [name |-> c.name[1], kind |-> c.tag[1].kind, disc |-> "",
        parent |-> Some(IF up = 0 THEN FileRoot(filename)
                        ELSE EntityOf(filename, tree, matches, up))]

Bijections(n) == {f \in [1..n -> 1..n] : \A i, j \in 1..n : i # j => f[i] # f[j]}

C24_IncompleteMatchSkipped ==
    linked # None =>
        /\ ~linked[1].panic
        /\ linked[1].res.ok
        /\ linked[1].res.value =
              parse(linked[1].filename, WholeFile,
                    match_loop(linked[1].tree, Complete(linked[1].matches), <<>>).value)


(***************************************************************************)
(* Two extraction runs over one DiffedFile                                 *)
(***************************************************************************)
RECURSIVE insert_changes(_, _)
\* for change in &changes { insert_change(.., change) }
insert_changes(d, changes) ==
    IF changes = <<>> THEN d
    ELSE insert_changes(insert_change(d, Head(changes)).db, Tail(changes))

\* one run of the pipeline on its own process: the commit is inserted, then
\* the changes in the order get_changes returned them, which is the order
\* changes.into_iter() yields on that run
extract(commit, df, order) ==
    insert_changes(insert_commit(NewDb, commit).db, order)

\* the DiffedFiles the runs are made on
RunFiles == {df \in DiffedFiles : Len(df.hunks) <= 1}

RunCommit == CHOOSE c \in RepoCommits : c.id = "c1"

\* the first run
FirstRun(df) ==
    /\ runs = None
    /\ \E order \in IterOrders(get_changes(NewCtx, df).changes) :
            runs' = Some([df |-> df, first |-> Some(extract(RunCommit, df, order)),
                          second |-> None])
    /\ UNCHANGED <<isect, pair, linked, ctx, attr, flush>>
    /\ UNCHANGED conv_vars
    /\ UNCHANGED repo_vars
    /\ UNCHANGED vt_vars
    /\ UNCHANGED db_vars
    /\ UNCHANGED walk_vars

\* the second run, on the same input
SecondRun ==
    /\ runs # None
    /\ runs[1].second = None
    /\ \E order \in IterOrders(get_changes(NewCtx, runs[1].df).changes) :
            runs' = Some([runs[1] EXCEPT
                            !.second = Some(extract(RunCommit, runs[1].df, order))])
    /\ UNCHANGED <<isect, pair, linked, ctx, attr, flush>>
    /\ UNCHANGED conv_vars
    /\ UNCHANGED repo_vars
    /\ UNCHANGED vt_vars
    /\ UNCHANGED db_vars
    /\ UNCHANGED walk_vars

RunsNext ==
    \/ \E df \in RunFiles : FirstRun(df)
    \/ SecondRun

SpecRuns == DbInit /\ [][RunsNext]_vars

\* C25: two runs over identical inputs give every entity and change row the
\* same id, so the tables of the two runs are equal.
C25_RunsAssignSameIds ==
    (runs # None /\ runs[1].second # None) =>
        /\ runs[1].first[1].entity_vt.map = runs[1].second[1].entity_vt.map
        /\ runs[1].first[1].change_vt.map = runs[1].second[1].change_vt.map


(***************************************************************************)
(* The hunk callback on deltas of any status and any pair of paths         *)
(***************************************************************************)
\* the statuses a delta can carry
DeltaStatus == SupportedStatus \cup {"Renamed"}

\* the hunk lists of one delta: none, or up to MaxHunks one-line hunks
DeltaHunkLists ==
    SeqsUpTo({[old_start |-> 1, old_lines |-> 1, new_start |-> 1, new_lines |-> 1]}, MaxHunks)

Deltas ==
    {DiffDelta(status, Some(o), Some(n), "b1", "b2", h) :
        status \in DeltaStatus, o \in TreePaths, n \in TreePaths, h \in DeltaHunkLists}

\* the diffs of one commit: up to two deltas
DeltaSets == {{}} \cup {{d, e} : d \in Deltas, e \in Deltas}

DeltaCommit == Repo(EmptyTree, EmptyTree).c

\* diff_all_files on one commit whose diff holds the given deltas
DiffForeach(deltas) ==
    /\ dres = None
    /\ dres' = Some([deltas |-> deltas,
                     res |-> into_values(foreach(NoDiffedFiles, DeltaCommit, deltas, Suffix))])
    /\ UNCHANGED <<conv, isect, pair, linked, runs, ctx, attr, flush>>
    /\ UNCHANGED repo_vars
    /\ UNCHANGED vt_vars
    /\ UNCHANGED db_vars
    /\ UNCHANGED walk_vars

DeltaNext == \E ds \in DeltaSets : DiffForeach(ds)

SpecDelta == DbInit /\ [][DeltaNext]_vars

RECURSIVE HunkCount(_)
\* the number of hunks the elements of S hold
HunkCount(S) ==
    IF S = {} THEN 0
    ELSE LET x == CHOOSE x \in S : TRUE IN Len(x.hunks) + HunkCount(S \ {x})

\* the deltas whose hunks are collected: supported status, one path, the suffix
Collected(ds) ==
    {d \in ds : /\ d.status \in {"Added", "Deleted", "Modified"}
                /\ d.old_path = d.new_path
                /\ is_selected(d.old_path[1], Suffix)}

\* every DiffedFile is the file of a collected delta, and the DiffedFiles hold
\* as many hunks as the collected deltas
OnlyCollectedHunks(ds, files) ==
    /\ \A df \in files : \E d \in Collected(ds) : d.old_path = Some(df.filename)
    /\ HunkCount(files) = HunkCount(Collected(ds))

C27_WitnessAbort ==
    /\ dres # None
    /\ ~dres[1].res.ok
    /\ \E d \in dres[1].deltas :
          d.status = "Modified" /\ d.old_path # d.new_path /\ d.hunks # <<>>


(***************************************************************************)
(* The conversion of a DiffHunk by main.rs and by extraction.rs            *)
(***************************************************************************)
\* the greatest value of a u32; stands for 2^32 - 1, which is beyond the
\* integers the model checker computes with; every start and line count in
\* use is far below it
MaxU32 == 1023

\* the build profiles of the program: overflow checks on (debug) or off (release)
Profiles == {"debug", "release"}

\* a - b on u32: an overflow panics with overflow checks on, wraps without
sub_u32(a, b, profile) ==
    IF a >= b THEN [panic |-> FALSE, value |-> a - b]
    ELSE IF profile = "debug" THEN [panic |-> TRUE]
    ELSE [panic |-> FALSE, value |-> (a - b) % (MaxU32 + 1)]

\* TryFrom<DiffHunk> for Hunk of main.rs: the starts are made zero-based, a
\* zero start is logged only; the sums are taken in usize
main_try_from(diff_hunk, profile) ==
    LET old_start == sub_u32(diff_hunk.old_start, 1, profile)
        new_start == sub_u32(diff_hunk.new_start, 1, profile)
    IN IF old_start.panic \/ new_start.panic THEN [kind |-> "panic"]
       ELSE [kind |-> "Ok",
             value |-> Hunk(Interval(old_start.value, old_start.value + diff_hunk.old_lines),
                            Interval(new_start.value, new_start.value + diff_hunk.new_lines))]

\* hunk.try_into() on one hunk, by either implementation
TryInto(diff_hunk, profile) ==
    /\ conv = None
    /\ conv' = Some([diff_hunk |-> diff_hunk, profile |-> profile,
                     main |-> main_try_from(diff_hunk, profile),
                     extraction |-> hunk_try_from(diff_hunk)])
    /\ UNCHANGED <<dres, isect, pair, linked, runs, ctx, attr, flush>>
    /\ UNCHANGED repo_vars
    /\ UNCHANGED vt_vars
    /\ UNCHANGED db_vars
    /\ UNCHANGED walk_vars

ConvNext == \E dh \in DiffHunks, profile \in Profiles : TryInto(dh, profile)

SpecConv == DbInit /\ [][ConvNext]_vars

\* the Hunk the claim expects: (s, s + n) on either side
StartKept(diff_hunk) ==
    [old_interval |-> <<diff_hunk.old_start, diff_hunk.old_start + diff_hunk.old_lines>>,
     new_interval |-> <<diff_hunk.new_start, diff_hunk.new_start + diff_hunk.new_lines>>]

\* C28: for every start s >= 0 and line count n the conversion succeeds and
\* stores the interval (s, s + n) for that side; a start of 0 neither fails
\* nor wraps around.
C28_ConversionKeepsStart ==
    conv # None =>
        /\ conv[1].extraction = StartKept(conv[1].diff_hunk)
        /\ conv[1].main.kind = "Ok"
        /\ conv[1].main.value = StartKept(conv[1].diff_hunk)

\* the part of C28 on the conversion of extraction.rs
C28_ExtractionKeepsStart ==
    conv # None => conv[1].extraction = StartKept(conv[1].diff_hunk)

====
